---- MODULE Spec2Model ----
(***************************************************************************)
(* A model of MeshConverter: the native parsers of MeshReader (STL, OBJ,   *)
(* PLY, OFF), the format detectors of MeshReader and MeshHelper,           *)
(* MeshWriter::write, MeshConverter::convert and the threaded              *)
(* MeshConverter::batchConvert.                                            *)
(*                                                                         *)
(* Representation notes.                                                   *)
(*  - A uint32_t is represented by the int32 that has the same 32 bits     *)
(*    (static_cast<uint32_t>(int) keeps the bits).  Its unsigned value is  *)
(*    the number itself when it is >= 0 and the number + 2^32 otherwise,   *)
(*    so an unsigned comparison "u < n" with 0 <= n < 2^31 is U32Less.     *)
(*  - A float token of a text file is a Tok: well formed (num, with a      *)
(*    value) or malformed.  A face reference of an OBJ file is a sequence  *)
(*    of characters, parsed by Stoi as std::stoi parses it.                *)
(*  - A path, a message and the first bytes of a file are sequences of     *)
(*    characters.                                                          *)
(***************************************************************************)
EXTENDS Integers, Sequences, FiniteSets, TLC

\* ------------------------------------------------------------------ bounds
MaxObjLines == 3
MaxOffFaces == 2
MaxPlyFaces == 1
MaxStlBlocks == 2  \* blocks of lines after the first line of an ASCII STL file
MaxStlTris == 2    \* triangle records in a binary STL file
MaxBatch == 3      \* source paths in one batch
MaxHW == 2         \* largest value of std::thread::hardware_concurrency()

\* ------------------------------------------------------------- utilities
Range(s) == {s[i] : i \in DOMAIN s}

RECURSIVE SeqsUpTo(_, _)
SeqsUpTo(S, n) ==
    IF n = 0 THEN {<<>>}
    ELSE LET shorter == SeqsUpTo(S, n - 1)
         IN  shorter \cup {Append(s, x) : s \in {t \in shorter : Len(t) = n - 1}, x \in S}

Num(v) == [num |-> TRUE, v |-> v]
Bad == [num |-> FALSE, v |-> 0]

\* unsigned comparison of a uint32_t (held as its int32 bit pattern) with n
U32Less(u, n) == u >= 0 /\ u < n

\* --------------------------------------------------------------- MeshData
EmptyMesh == [points |-> <<>>, cells |-> <<>>]

Cell(type, idx) == [type |-> type, pointIndices |-> idx]

isEmpty(m) == m.points = <<>> /\ m.cells = <<>>

\* MeshMetadata as default-constructed; cellTypeCount is a set of <<kind, count>>
DefaultMetadata ==
    [fileName |-> <<>>, meshType |-> "UNKNOWN", format |-> "UNKNOWN",
     pointCount |-> 0, cellCount |-> 0, cellTypeCount |-> {},
     physicalRegions |-> <<>>, pointDataNames |-> <<>>, cellDataNames |-> <<>>,
     formatVersion |-> <<>>]
VolumeCells == {"TETRA", "HEXAHEDRON", "WEDGE", "PYRAMID"}
CellTypeCount(cells) ==
    {<<t, Cardinality({i \in 1..Len(cells) : cells[i].type = t})>> :
        t \in {cells[i].type : i \in 1..Len(cells)}}
\* the keys of an attribute map, in order; the native readers fill no attribute
DataNames(m, field) ==
    IF field \in DOMAIN m THEN [i \in 1..Len(m[field]) |-> m[field][i].name] ELSE <<>>
\* MeshData::calculateMetadata on a MeshData whose metadata is md
calculateMetadata(m, md) ==
    [md EXCEPT !.pointCount = Len(m.points) \div 3,
               !.cellCount = Len(m.cells),
               !.cellTypeCount = CellTypeCount(m.cells),
               !.pointDataNames = DataNames(m, "pointData"),
               !.cellDataNames = DataNames(m, "cellData"),
               !.meshType = IF m.cells = <<>> THEN "UNKNOWN"
                            ELSE IF \E i \in 1..Len(m.cells) : m.cells[i].type \in VolumeCells
                            THEN "VOLUME_MESH" ELSE "SURFACE_MESH"]

\* cell type chosen from the number of vertices of a face (OBJ, PLY)
FaceType(n) ==
    IF n = 3 THEN "TRIANGLE" ELSE IF n = 4 THEN "QUAD" ELSE "POLYGON"

\* result of a reader: the flag, the out-parameters, the MeshData left behind
\* and whether an exception left the function instead of a return
Ok(m) == [ok |-> TRUE, code |-> "SUCCESS", msg |-> <<>>, mesh |-> m, threw |-> FALSE]
\* a reader that returns true without touching errorCode/errorMsg
OkKeep(m) == [ok |-> TRUE, code |-> "UNSET", msg |-> <<>>, mesh |-> m, threw |-> FALSE]
Fail(c, msg, m) == [ok |-> FALSE, code |-> c, msg |-> msg, mesh |-> m, threw |-> FALSE]
Threw(m) == [ok |-> FALSE, code |-> "UNSET", msg |-> <<>>, mesh |-> m, threw |-> TRUE]

\* ------------------------------------------------------------- std::stoi
Digits == <<"0", "1", "2", "3", "4", "5", "6", "7", "8", "9">>
IsDigit(c) == \E d \in DOMAIN Digits : Digits[d] = c
DigitVal(c) == (CHOOSE d \in DOMAIN Digits : Digits[d] = c) - 1

RECURSIVE StoiDigits(_, _, _)
\* value of the longest run of digits of s from position i on, acc so far
StoiDigits(s, i, acc) ==
    IF i > Len(s) \/ ~IsDigit(s[i]) THEN acc
    ELSE StoiDigits(s, i + 1, acc * 10 + DigitVal(s[i]))

\* std::stoi: optional sign, then digits; no digit is std::invalid_argument
Stoi(s) ==
    LET signed == Len(s) >= 1 /\ s[1] \in {"-", "+"}
        first == IF signed THEN 2 ELSE 1
    IN  IF first > Len(s) \/ ~IsDigit(s[first])
        THEN [ok |-> FALSE, v |-> 0]
        ELSE [ok |-> TRUE,
              v |-> IF signed /\ s[1] = "-" THEN 0 - StoiDigits(s, first, 0)
                    ELSE StoiDigits(s, first, 0)]

\* vertexRef.substr(0, vertexRef.find('/'))
RECURSIVE BeforeSlash(_)
BeforeSlash(s) ==
    IF s = <<>> \/ Head(s) = "/" THEN <<>> ELSE <<Head(s)>> \o BeforeSlash(Tail(s))

\* ------------------------------------------------------- MeshReader::readOBJ
\* the while loop over the references of one "f " or "l " line
RECURSIVE ObjRefs(_, _)
ObjRefs(refs, acc) ==
    IF refs = <<>> THEN [threw |-> FALSE, idx |-> acc]
    ELSE LET r == Stoi(BeforeSlash(Head(refs)))
         IN  IF ~r.ok THEN [threw |-> TRUE, idx |-> acc]
             ELSE ObjRefs(Tail(refs), Append(acc, r.v - 1))

\* vertexStream >> x >> y >> z
ThreeFloats(t) == Len(t) >= 3 /\ \A i \in 1..3 : t[i].num

ObjStart == [vertices |-> <<>>, faces |-> <<>>, cells |-> <<>>, threw |-> FALSE]

\* one iteration of the getline loop
ObjLine(st, line) ==
    IF st.threw THEN st
    ELSE IF line.k = "v"
    THEN IF ThreeFloats(line.t)
         THEN [st EXCEPT !.vertices = @ \o <<line.t[1].v, line.t[2].v, line.t[3].v>>]
         ELSE st
    ELSE IF line.k = "f"
    THEN LET r == ObjRefs(line.r, <<>>)
         IN  IF r.threw THEN [st EXCEPT !.threw = TRUE]
             ELSE IF r.idx # <<>> THEN [st EXCEPT !.faces = Append(@, r.idx)]
             ELSE st
    ELSE IF line.k = "l"
    THEN LET r == ObjRefs(line.r, <<>>)
         IN  IF r.threw THEN [st EXCEPT !.threw = TRUE]
             ELSE IF r.idx # <<>>
             THEN [st EXCEPT !.cells = Append(@, Cell("LINE", r.idx))]
             ELSE st
    ELSE st

RECURSIVE ObjLines(_, _)
ObjLines(lines, st) ==
    IF lines = <<>> THEN st ELSE ObjLines(Tail(lines), ObjLine(st, Head(lines)))

\* every face as a cell, however few indices it has
RECURSIVE ObjFaceCells_KeepShort(_)
ObjFaceCells_KeepShort(faces) ==
    IF faces = <<>> THEN <<>>
    ELSE <<Cell(FaceType(Len(Head(faces))), Head(faces))>> \o ObjFaceCells_KeepShort(Tail(faces))

\* the faces with at least 3 indices, as cells
RECURSIVE ObjFaceCells(_)
ObjFaceCells(faces) ==
    IF faces = <<>> THEN <<>>
    ELSE LET f == Head(faces)
         IN  (IF Len(f) < 3 THEN <<>> ELSE <<Cell(FaceType(Len(f)), f)>>)
             \o ObjFaceCells(Tail(faces))

readOBJ(file) ==
    IF ~file.exists THEN Fail("FILE_NOT_EXIST", <<"File does not exist: ">> \o file.path, EmptyMesh)
    ELSE IF ~file.readable THEN Fail("READ_FAILED", <<"Failed to open file: ">> \o file.path, EmptyMesh)
    ELSE LET st == ObjLines(file.lines, ObjStart)
             lineMesh == [points |-> <<>>, cells |-> st.cells]
             cells == st.cells \o ObjFaceCells(st.faces)
             full == [points |-> st.vertices, cells |-> cells]
         IN  IF st.threw
             THEN Fail("READ_FAILED", <<"Error reading OBJ file: ", "stoi">>, lineMesh)
             ELSE IF st.vertices = <<>>
             THEN Fail("MESH_EMPTY", <<"No vertices found in OBJ file">>, lineMesh)
             ELSE IF Len(st.vertices) % 3 # 0
             THEN Fail("READ_FAILED", <<"Invalid vertex data in OBJ file">>, lineMesh)
             ELSE IF cells = <<>>
             THEN Fail("MESH_EMPTY", <<"No valid cells found in OBJ file">>, full)
             ELSE OkKeep(full)

\* ------------------------------------------------------- MeshReader::readOFF
\* the vertex loop: n more vertices of three floats each, from token pos on
RECURSIVE OffVertices(_, _, _, _)
OffVertices(toks, pos, n, pts) ==
    IF n <= 0 THEN [ok |-> TRUE, pos |-> pos, points |-> pts]
    ELSE IF pos + 2 > Len(toks) \/ \E i \in pos..(pos + 2) : ~toks[i].num
    THEN [ok |-> FALSE, pos |-> pos, points |-> pts]
    ELSE OffVertices(toks, pos + 3, n - 1,
                     pts \o <<toks[pos].v, toks[pos + 1].v, toks[pos + 2].v>>)

\* the inner loop: n more "file >> vertexIndex" of one face
RECURSIVE OffIndices(_, _, _, _)
OffIndices(toks, pos, n, idx) ==
    IF n <= 0 THEN [ok |-> TRUE, pos |-> pos, idx |-> idx]
    ELSE IF pos > Len(toks) \/ ~toks[pos].num THEN [ok |-> FALSE, pos |-> pos, idx |-> idx]
    ELSE OffIndices(toks, pos + 1, n - 1, Append(idx, toks[pos].v))

OffCellType(n) ==
    IF n = 3 THEN "TRIANGLE" ELSE IF n = 4 THEN "QUAD" ELSE "POLYGON"

\* the face loop: n more faces; st is "ok", "count", "index" or "threw"
RECURSIVE OffFaces(_, _, _, _)
OffFaces(toks, pos, n, cells) ==
    IF n <= 0 THEN [st |-> "ok", cells |-> cells]
    ELSE IF pos > Len(toks) \/ ~toks[pos].num THEN [st |-> "count", cells |-> cells]
    ELSE IF toks[pos].v < 0 THEN [st |-> "threw", cells |-> cells]
    ELSE LET r == OffIndices(toks, pos + 1, toks[pos].v, <<>>)
         IN  IF ~r.ok THEN [st |-> "index", cells |-> cells]
             ELSE OffFaces(toks, r.pos, n - 1,
                           Append(cells, Cell(OffCellType(toks[pos].v), r.idx)))

\* readOFF without the check of the magic word (lines 2002-2007)
readOFF_NoMagic(file) ==
    IF ~file.exists \/ ~file.readable
    THEN Fail("FILE_NOT_EXIST", <<"File not found or cannot be opened">>, EmptyMesh)
    ELSE IF ~file.hasHeader
    THEN Fail("READ_FAILED", <<"Failed to read OFF header">>, EmptyMesh)
    ELSE IF Len(file.toks) < 3 \/ \E i \in 1..3 : ~file.toks[i].num
    THEN Fail("READ_FAILED", <<"Failed to read vertex, face, edge counts">>, EmptyMesh)
    ELSE LET vs == OffVertices(file.toks, 4, file.toks[1].v, <<>>)
             fs == OffFaces(file.toks, vs.pos, file.toks[2].v, <<>>)
         IN  IF file.toks[1].v < 0 \/ file.toks[2].v < 0 THEN Threw(EmptyMesh)
             ELSE IF ~vs.ok \/ fs.st # "ok"
             THEN Fail("READ_FAILED", <<"Failed to read vertex coordinates">>,
                       [points |-> vs.points, cells |-> fs.cells])
             ELSE Ok([points |-> vs.points, cells |-> fs.cells])

readOFF(file) ==
    IF ~file.exists \/ ~file.readable
    THEN Fail("FILE_NOT_EXIST", <<"File not found or cannot be opened">>, EmptyMesh)
    ELSE IF ~file.hasHeader
    THEN Fail("READ_FAILED", <<"Failed to read OFF header">>, EmptyMesh)
    ELSE IF file.header = <<>> \/ file.header[1] # "OFF"
    THEN Fail("FORMAT_VERSION_INVALID", <<"Invalid OFF header. Expected 'OFF'">>, EmptyMesh)
    ELSE IF Len(file.toks) < 3 \/ \E i \in 1..3 : ~file.toks[i].num
    THEN Fail("READ_FAILED", <<"Failed to read vertex, face, edge counts">>, EmptyMesh)
    ELSE LET numVertices == file.toks[1].v
             numFaces == file.toks[2].v
             vs == OffVertices(file.toks, 4, numVertices, <<>>)
             ptsMesh == [points |-> vs.points, cells |-> <<>>]
             fs == OffFaces(file.toks, vs.pos, numFaces, <<>>)
             mesh == [points |-> vs.points, cells |-> fs.cells]
         IN  IF numVertices < 0 THEN Threw(EmptyMesh)
             ELSE IF ~vs.ok
             THEN Fail("READ_FAILED", <<"Failed to read vertex coordinates">>, ptsMesh)
             ELSE IF numFaces < 0 THEN Threw(ptsMesh)
             ELSE IF fs.st = "count"
             THEN Fail("READ_FAILED", <<"Failed to read face vertex count">>, mesh)
             ELSE IF fs.st = "index"
             THEN Fail("READ_FAILED", <<"Failed to read face vertex index">>, mesh)
             ELSE IF fs.st = "threw" THEN Threw(mesh)
             ELSE Ok(mesh)

\* ------------------------------------------------------- MeshReader::readPLY
\* four bytes of the file as a native (little-endian) 32-bit pattern
LeInt(b, pos) ==
    b[pos] + 256 * b[pos + 1] + 65536 * b[pos + 2]
      + 16777216 * (IF b[pos + 3] >= 128 THEN b[pos + 3] - 256 ELSE b[pos + 3])

PlyHeaderStart ==
    [headerEnd |-> FALSE, bad |-> FALSE, isBinary |-> FALSE, vertexCount |-> 0, faceCount |-> 0]

\* one iteration of the header loop
PlyHeaderLine(st, line) ==
    IF st.headerEnd \/ st.bad THEN st
    ELSE IF line.k = "format"
    THEN IF line.a \in {"binary_little_endian", "binary_big_endian"}
         THEN [st EXCEPT !.isBinary = TRUE]
         ELSE IF line.a = "ascii" THEN [st EXCEPT !.isBinary = FALSE]
         ELSE [st EXCEPT !.bad = TRUE]
    ELSE IF line.k = "element"
    THEN LET count == IF line.n.num THEN line.n.v ELSE 0
         IN  IF line.a = "vertex" THEN [st EXCEPT !.vertexCount = count]
             ELSE IF line.a = "face" THEN [st EXCEPT !.faceCount = count]
             ELSE st
    ELSE IF line.k = "end_header" THEN [st EXCEPT !.headerEnd = TRUE]
    ELSE st

RECURSIVE PlyHeader(_, _)
PlyHeader(lines, st) ==
    IF lines = <<>> THEN st ELSE PlyHeader(Tail(lines), PlyHeaderLine(st, Head(lines)))

\* the vertex loop: n more vertices of three 4-byte floats, from byte pos on
RECURSIVE PlyVertices(_, _, _, _)
PlyVertices(b, pos, n, pts) ==
    IF n = 0 THEN [ok |-> TRUE, pos |-> pos, points |-> pts]
    ELSE IF pos + 11 > Len(b) THEN [ok |-> FALSE, pos |-> pos, points |-> pts]
    ELSE PlyVertices(b, pos + 12, n - 1,
                     pts \o <<LeInt(b, pos), LeInt(b, pos + 4), LeInt(b, pos + 8)>>)

\* the face loop: n more faces of a count byte and that many 4-byte ints
RECURSIVE PlyFaces(_, _, _, _)
PlyFaces(b, pos, n, cells) ==
    IF n = 0 \/ pos > Len(b) THEN cells
    ELSE LET k == b[pos]
             idx == [j \in 1..k |-> LeInt(b, pos + 1 + 4 * (j - 1))]
         IN  IF pos + 4 * k > Len(b) THEN cells
             ELSE PlyFaces(b, pos + 1 + 4 * k, n - 1,
                           IF k >= 3 THEN Append(cells, Cell(FaceType(k), idx)) ELSE cells)

readPLY(file) ==
    IF ~file.exists THEN Fail("FILE_NOT_EXIST", <<"File does not exist: ">> \o file.path, EmptyMesh)
    ELSE IF ~file.readable THEN Fail("READ_FAILED", <<"Failed to open file: ">> \o file.path, EmptyMesh)
    ELSE IF ~file.hasFirst
    THEN Fail("READ_FAILED", <<"Invalid PLY file: empty file">>, EmptyMesh)
    ELSE IF file.first # "ply"
    THEN Fail("READ_FAILED", <<"Invalid PLY file: missing 'ply' header">>, EmptyMesh)
    ELSE LET h == PlyHeader(file.plyLines, PlyHeaderStart)
             vs == PlyVertices(file.body, 1, h.vertexCount, <<>>)
             cells == PlyFaces(file.body, vs.pos, h.faceCount, <<>>)
         IN  IF h.bad
             THEN Fail("READ_FAILED", <<"Invalid PLY file: unsupported format">>, EmptyMesh)
             ELSE IF ~h.headerEnd
             THEN Fail("READ_FAILED", <<"Invalid PLY file: missing 'end_header'">>, EmptyMesh)
             ELSE IF h.vertexCount = 0
             THEN Fail("MESH_EMPTY", <<"No vertices found in PLY file">>, EmptyMesh)
             ELSE IF ~vs.ok
             THEN Fail("READ_FAILED", <<"Invalid PLY file: incomplete vertex data">>, EmptyMesh)
             ELSE OkKeep([points |-> vs.points, cells |-> cells])

\* ---------------------------------------------------------- files to parse
\* OBJ: the lines of the file, by their two-character prefix after trimming
ObjV(a, b, c) == [k |-> "v", t |-> <<a, b, c>>, r |-> <<>>]
ObjF(refs) == [k |-> "f", t |-> <<>>, r |-> refs]
ObjL(refs) == [k |-> "l", t |-> <<>>, r |-> refs]
ObjLineAlphabet ==
    { ObjV(Num(1), Num(2), Num(3)),              \* v 1 2 3
      ObjV(Num(1), Bad, Num(3)),                 \* v 1 abc 3
      [k |-> "#", t |-> <<>>, r |-> <<>>],                 \* a comment, vn, vt, ...
      ObjF(<< <<"1">>, <<"1">>, <<"1">> >>),     \* f 1 1 1
      ObjF(<< <<"1">>, <<"2">>, <<"1">> >>),     \* f 1 2 1
      ObjF(<< <<"0">>, <<"1">>, <<"1">> >>),     \* f 0 1 1
      ObjF(<< <<"1", "/", "7">>, <<"1">>, <<"1">>, <<"1">> >>),  \* f 1/7 1 1 1
      ObjF(<< <<"1">>, <<"1">> >>),              \* f 1 1
      ObjF(<< <<"/", "1">>, <<"1">>, <<"1">> >>),  \* f /1 1 1
      ObjL(<< <<"1">>, <<"-", "1">> >>) }        \* l 1 -1

\* every file record has the fields of every format; a format reads its own
NoFile ==
    [kind |-> "NONE", path |-> <<>>, exists |-> TRUE, readable |-> TRUE,
     lines |-> <<>>,                                    \* OBJ
     hasHeader |-> FALSE, header |-> <<>>, toks |-> <<>>,  \* OFF
     hasFirst |-> FALSE, first |-> "", plyLines |-> <<>>, body |-> <<>>,  \* PLY
     stlLines |-> <<>>,                                 \* ASCII STL
     size |-> 0, triangleCount |-> 0, stlTris |-> <<>>, \* binary STL
     head |-> <<>>,          \* the first bytes of the file, up to the first NUL
     isDir |-> FALSE, hasPolyMesh |-> FALSE,
     engineOk |-> FALSE]     \* what the VTK / Gmsh library makes of the file

P_obj == <<"a", "/", "m", ".", "o", "b", "j">>
ObjFile(lines) == [NoFile EXCEPT !.kind = "OBJ", !.path = P_obj, !.lines = lines]
\* n vertex lines, then one face line with the references 1 .. n
ObjRing(n, suffix) ==
    ObjFile([i \in 1..n |-> ObjV(Num(i), Num(0), Num(0))]
              \o <<ObjF([i \in 1..n |-> <<Digits[i + 1]>> \o suffix])>>)
ObjExamples ==
    { ObjRing(4, <<>>),                          \* v x4, f 1 2 3 4
      ObjRing(5, <<>>),                          \* v x5, f 1 2 3 4 5
      ObjRing(3, <<"/", "9", "/", "8">>),        \* v x3, f 1/9/8 2/9/8 3/9/8
      ObjRing(2, <<>>) }                         \* v x2, f 1 2
ObjFiles == {ObjFile(l) : l \in SeqsUpTo(ObjLineAlphabet, MaxObjLines)} \cup ObjExamples

\* OFF: the whitespace-separated tokens of the first line, then those of the rest
OffFaceAlphabet ==
    { <<Num(3), Num(0), Num(0), Num(0)>>,
      <<Num(3), Num(0), Num(1), Num(0)>>,
      <<Num(3), Num(0), Num(0 - 1), Num(0)>>,
      <<Num(4), Num(0), Num(0), Num(0), Num(0)>>,
      <<Num(3), Num(0), Bad, Num(0)>>,
      <<Num(0)>>,
      <<Num(0 - 1)>> }

RECURSIVE Flatten(_)
Flatten(ss) == IF ss = <<>> THEN <<>> ELSE Head(ss) \o Flatten(Tail(ss))

OffVertexToks(n) == Flatten([i \in 1..n |-> <<Num(i), Num(i), Num(i)>>])

P_off == <<"a", "/", "m", ".", "o", "f", "f">>
OffFile(header, toks) ==
    [NoFile EXCEPT !.kind = "OFF", !.path = P_off, !.hasHeader = TRUE, !.header = header,
                   !.toks = toks]

OffBodies ==
    { <<Num(nv), Num(nf), Num(0)>> \o OffVertexToks(k) \o Flatten(fs) :
        nv \in (0 - 1)..1, nf \in (0 - 1)..MaxOffFaces, k \in 0..1,
        fs \in SeqsUpTo(OffFaceAlphabet, MaxOffFaces) }

OffFiles ==
    {OffFile(<<"OFF">>, t) : t \in OffBodies}
    \cup {OffFile(h, <<Num(1), Num(0), Num(0), Num(1), Num(1), Num(1)>>) :
            h \in {<<>>, <<"COFF">>, <<"OFF", "1", "0", "0">>}}
    \cup {OffFile(<<"OFF">>, t) : t \in {<<>>, <<Num(1), Bad, Num(0)>>}}
    \cup {[OffFile(<<>>, <<>>) EXCEPT !.hasHeader = FALSE],
          [OffFile(<<"OFF">>, <<>>) EXCEPT !.exists = FALSE]}

\* PLY: the first line, the header lines by keyword, and the bytes after them
RECURSIVE LeBytes(_, _)
\* the n low bytes of v, lowest first (two's complement)
LeBytes(v, n) ==
    IF n = 0 THEN <<>> ELSE <<v % 256>> \o LeBytes((v - (v % 256)) \div 256, n - 1)

PlyFace(idx) == <<Len(idx)>> \o Flatten([i \in DOMAIN idx |-> LeBytes(idx[i], 4)])
PlyFaceAlphabet ==
    { PlyFace(<<0, 0, 0>>), PlyFace(<<0, 1, 0>>), PlyFace(<<0, 0 - 1, 0>>),
      PlyFace(<<0, 0, 0, 0>>), PlyFace(<<0, 0>>) }

PlyVertexBytes(n) == Flatten([i \in 1..n |-> LeBytes(i, 4) \o LeBytes(i, 4) \o LeBytes(i, 4)])

PlyLine(k, a, n) == [k |-> k, a |-> a, n |-> n]
PlyHeaders ==
    { <<PlyLine("format", f, Num(1)), PlyLine("other", "comment", Num(0)),
        PlyLine("element", "vertex", nv), PlyLine("element", "face", Num(nf))>> \o e :
        f \in {"ascii", "binary_little_endian", "binary_big_endian", "text"},
        nv \in {Num(0), Num(1), Bad}, nf \in 0..MaxPlyFaces,
        e \in {<<>>, <<PlyLine("end_header", "", Num(0))>>} }

PlyFile(first, header, body) ==
    [NoFile EXCEPT !.kind = "PLY", !.hasFirst = TRUE, !.first = first,
                   !.plyLines = header, !.body = body]

PlyBodies ==
    { SubSeq(b, 1, Len(b) - cut) :
        b \in {PlyVertexBytes(k) \o Flatten(fs) :
                 k \in 0..1, fs \in SeqsUpTo(PlyFaceAlphabet, MaxPlyFaces)},
        cut \in 0..1 }

\* the text of a line of one-digit numbers: digits, blanks between, a newline
AsciiLine(nums) ==
    Flatten([i \in 1..Len(nums) |->
               <<48 + nums[i], IF i < Len(nums) THEN 32 ELSE 10>>])
\* a PLY file of k vertices (i, i, i) and the given faces, stored as fmt says
PlyOf(fmt, k, faces) ==
    PlyFile("ply",
            <<PlyLine("format", fmt, Num(1)), PlyLine("element", "vertex", Num(k)),
              PlyLine("element", "face", Num(Len(faces))), PlyLine("end_header", "", Num(0))>>,
            IF fmt = "ascii"
            THEN Flatten([i \in 1..k |-> AsciiLine(<<i, i, i>>)])
                   \o Flatten([j \in 1..Len(faces) |->
                                 AsciiLine(<<Len(faces[j])>> \o faces[j])])
            ELSE PlyVertexBytes(k) \o Flatten([j \in 1..Len(faces) |-> PlyFace(faces[j])]))
PlyFaceLists == {<<>>, <<<<0, 0, 0>>>>}
PlyExamples ==
    {PlyOf(fmt, 1, fs) : fmt \in {"ascii", "binary_little_endian"}, fs \in PlyFaceLists}

PlyFiles ==
    {PlyFile("ply", h, b) : h \in PlyHeaders, b \in PlyBodies} \cup PlyExamples
    \cup {PlyFile("ply\r", <<PlyLine("end_header", "", Num(0))>>, <<>>),
          [PlyFile("", <<>>, <<>>) EXCEPT !.hasFirst = FALSE],
          [PlyFile("ply", <<>>, <<>>) EXCEPT !.readable = FALSE]}

\* what a caller's MeshData object may hold before a read
DirtyMesh == [points |-> <<7, 7, 7>>, cells |-> <<Cell("VERTEX", <<0>>)>>]

\* ------------------------------------------------------------------ paths
\* A path or a message fragment is a sequence of characters.
Upper == <<"A", "B", "C", "D", "E", "F", "G", "H", "I", "J", "K", "L", "M",
           "N", "O", "P", "Q", "R", "S", "T", "U", "V", "W", "X", "Y", "Z">>
Lower == <<"a", "b", "c", "d", "e", "f", "g", "h", "i", "j", "k", "l", "m",
           "n", "o", "p", "q", "r", "s", "t", "u", "v", "w", "x", "y", "z">>
\* ::tolower on one character
ToLowerChar(c) ==
    IF \E i \in DOMAIN Upper : Upper[i] = c
    THEN Lower[CHOOSE i \in DOMAIN Upper : Upper[i] = c]
    ELSE c
ToLower(s) == [i \in DOMAIN s |-> ToLowerChar(s[i])]

\* position of the last occurrence of character c in s, 0 when there is none
LastIndexOf(s, c) ==
    IF \E i \in DOMAIN s : s[i] = c
    THEN CHOOSE i \in DOMAIN s : s[i] = c /\ \A j \in (i + 1)..Len(s) : s[j] # c
    ELSE 0

\* s.find(pat) != std::string::npos
Contains(s, pat) ==
    \E i \in 1..(Len(s) - Len(pat) + 1) : SubSeq(s, i, i + Len(pat) - 1) = pat

\* std::filesystem::path::parent_path (of a path with a file name)
ParentPath(path) ==
    LET k == LastIndexOf(path, "/")
    IN  IF k = 0 THEN <<>> ELSE IF k = 1 THEN <<"/">> ELSE SubSeq(path, 1, k - 1)

\* std::filesystem::path::filename and ::stem
FileName(path) == SubSeq(path, LastIndexOf(path, "/") + 1, Len(path))
Stem(path) ==
    LET f == FileName(path)
        k == LastIndexOf(f, ".")
    IN  IF k <= 1 \/ f = <<".", ".">> THEN f ELSE SubSeq(f, 1, k - 1)

\* MeshHelper::getFormatExtension
getFormatExtension(format) ==
    CASE format = "VTK_LEGACY" -> <<".", "v", "t", "k">>
      [] format = "VTK_XML" -> <<".", "v", "t", "u">>
      [] format = "CGNS" -> <<".", "c", "g", "n", "s">>
      [] format \in {"GMSH_V2", "GMSH_V4"} -> <<".", "m", "s", "h">>
      [] format = "SU2" -> <<".", "s", "u", "2">>
      [] format = "OPENFOAM" -> <<>>
      [] format \in {"STL_ASCII", "STL_BINARY"} -> <<".", "s", "t", "l">>
      [] format = "OBJ" -> <<".", "o", "b", "j">>
      [] format \in {"PLY_ASCII", "PLY_BINARY"} -> <<".", "p", "l", "y">>
      [] format = "OFF" -> <<".", "o", "f", "f">>
      [] OTHER -> <<>>

\* operator/= of std::filesystem::path with a relative file name
PathAppend(dir, name) ==
    IF dir = <<>> THEN name
    ELSE IF dir[Len(dir)] = "/" THEN dir \o name
    ELSE dir \o <<"/">> \o name

\* MeshConverter::generateDstFilePath
generateDstFilePath(srcFilePath, dstDir, dstFormat) ==
    PathAppend(dstDir, Stem(srcFilePath) \o getFormatExtension(dstFormat))

\* ------------------------------------- MeshReader::detectFormatFromHeader
\* lowerPath.substr(lowerPath.size() - n), defined when the path has n characters
Suffix(s, n) == SubSeq(s, Len(s) - n + 1, Len(s))
\* s.substr(0, n): at most n characters
Substr0(s, n) == SubSeq(s, 1, IF Len(s) < n THEN Len(s) ELSE n)

Detected(format) == [format |-> format, threw |-> FALSE]
\* std::out_of_range from substr, which nothing in the function catches
DetectThrew == [format |-> "UNKNOWN", threw |-> TRUE]

\* the second half of the function: the first 128 bytes as a C string
HeaderFormat(f) ==
    IF ~f.readable THEN "UNKNOWN"
    ELSE IF Contains(f.head, <<"#", " ", "v", "t", "k">>) THEN "VTK_LEGACY"
    ELSE IF Contains(f.head, <<"<", "?", "x", "m", "l">>)
            /\ Contains(f.head, <<"V", "T", "K", "F", "i", "l", "e">>) THEN "VTK_XML"
    ELSE IF Contains(f.head, <<"C", "G", "N", "S">>) THEN "CGNS"
    ELSE IF Contains(f.head, <<"$", "M", "e", "s", "h", "F", "o", "r", "m", "a", "t">>)
    THEN IF Contains(f.head, <<"4", ".">>) THEN "GMSH_V4" ELSE "GMSH_V2"
    ELSE IF Contains(f.head, <<"s", "o", "l", "i", "d">>)
            \/ Contains(f.head, <<"S", "O", "L", "I", "D">>) THEN "STL_ASCII"
    ELSE IF f.head = <<>> THEN "STL_BINARY"
    ELSE IF Contains(f.head, <<"v", " ">>) /\ Contains(f.head, <<"f", " ">>) THEN "OBJ"
    ELSE IF Contains(f.head, <<"p", "l", "y">>)
    THEN IF Contains(f.head, <<"a", "s", "c", "i", "i">>) THEN "PLY_ASCII" ELSE "PLY_BINARY"
    ELSE IF Contains(f.head, <<"O", "F", "F">>) THEN "OFF"
    ELSE IF Contains(f.head, <<"S", "U", "2", "_", "M", "E", "S", "H">>) THEN "SU2"
    ELSE "UNKNOWN"

detectFormatFromHeader(filePath, f) ==
    LET lowerPath == ToLower(filePath)
        s4 == Suffix(lowerPath, 4)
        s5 == Suffix(lowerPath, 5)
    IN  IF ~f.exists THEN Detected("UNKNOWN")
        ELSE IF Len(filePath) < 4 THEN DetectThrew
        ELSE IF s4 = <<".", "v", "t", "k">> THEN Detected("VTK_LEGACY")
        ELSE IF s4 \in {<<".", "v", "t", "u">>, <<".", "v", "t", "p">>,
                        <<".", "v", "t", "i">>, <<".", "v", "t", "s">>}
        THEN Detected("VTK_XML")
        ELSE IF Len(filePath) < 5 THEN DetectThrew
        ELSE IF s5 = <<".", "c", "g", "n", "s">> THEN Detected("CGNS")
        ELSE IF s4 = <<".", "m", "s", "h">> THEN Detected("GMSH_V2")
        ELSE IF s4 = <<".", "s", "t", "l">>
        THEN IF f.readable /\ ToLower(Substr0(f.head, 5)) = <<"s", "o", "l", "i", "d">>
             THEN Detected("STL_ASCII")
             ELSE Detected("STL_BINARY")
        ELSE IF s4 = <<".", "o", "b", "j">> THEN Detected("OBJ")
        ELSE IF s4 = <<".", "p", "l", "y">> THEN Detected(HeaderFormat(f))
        ELSE IF s4 = <<".", "o", "f", "f">> THEN Detected("OFF")
        ELSE IF s4 = <<".", "s", "u", "2">> THEN Detected("SU2")
        ELSE IF f.isDir /\ f.hasPolyMesh THEN Detected("OPENFOAM")
        ELSE Detected(HeaderFormat(f))

\* ------------------------------------------------ MeshHelper::detectFormat
\* std::filesystem::path::extension: from the last dot of the file name on;
\* empty when there is no dot, when the only dot is the first character, and
\* for "." and ".."
Extension(path) ==
    LET f == FileName(path)
        k == LastIndexOf(f, ".")
    IN  IF k <= 1 \/ f = <<".", ".">> THEN <<>> ELSE SubSeq(f, k, Len(f))

\* MeshHelper::getFileExtension
getFileExtension(filePath) == ToLower(Extension(filePath))

\* the lines std::getline gives of a text, cur being the line under way
RECURSIVE SplitLines(_, _)
SplitLines(s, cur) ==
    IF s = <<>> THEN (IF cur = <<>> THEN <<>> ELSE <<cur>>)
    ELSE IF Head(s) = "\n" THEN <<cur>> \o SplitLines(Tail(s), <<>>)
    ELSE SplitLines(Tail(s), Append(cur, Head(s)))

Least(S) == CHOOSE i \in S : \A j \in S : i <= j

\* lines 34-53: the line after the first line that holds "$MeshFormat"
HelperGmsh(f) ==
    LET lines == SplitLines(f.head, <<>>)
        at == {i \in DOMAIN lines :
                 Contains(lines[i], <<"$", "M", "e", "s", "h", "F", "o", "r", "m", "a", "t">>)}
    IN  IF f.exists /\ f.readable /\ at # {} /\ Least(at) < Len(lines)
           /\ Contains(lines[Least(at) + 1], <<"4", ".">>)
        THEN "GMSH_V4"
        ELSE "GMSH_V2"

\* lines 55-70: "solid" or "SOLID" anywhere in the first 80 bytes
HelperStl(f) ==
    IF f.exists /\ f.readable
       /\ (\/ Contains(Substr0(f.head, 80), <<"s", "o", "l", "i", "d">>)
           \/ Contains(Substr0(f.head, 80), <<"S", "O", "L", "I", "D">>))
    THEN "STL_ASCII"
    ELSE "STL_BINARY"

\* lines 73-92: after a first line "ply", the first line that holds "format"
HelperPly(f) ==
    LET lines == SplitLines(f.head, <<>>)
        at == {i \in 2..Len(lines) : Contains(lines[i], <<"f", "o", "r", "m", "a", "t">>)}
    IN  IF f.exists /\ f.readable /\ lines # <<>> /\ lines[1] = <<"p", "l", "y">> /\ at # {}
           /\ ~Contains(lines[Least(at)], <<"a", "s", "c", "i", "i">>)
        THEN "PLY_BINARY"
        ELSE "PLY_ASCII"

\* lines 101-132: the first 128 bytes as a C string
HelperHeader(f) ==
    LET h == Substr0(f.head, 128)
    IN  IF ~f.exists \/ ~f.readable THEN "UNKNOWN"
        ELSE IF Contains(h, <<"#", " ", "v", "t", "k">>) THEN "VTK_LEGACY"
        ELSE IF Contains(h, <<"<", "?", "x", "m", "l">>)
                /\ Contains(h, <<"V", "T", "K", "F", "i", "l", "e">>) THEN "VTK_XML"
        ELSE IF Contains(h, <<"C", "G", "N", "S">>) THEN "CGNS"
        ELSE IF Contains(h, <<"$", "M", "e", "s", "h", "F", "o", "r", "m", "a", "t">>)
        THEN "GMSH_V2"
        ELSE IF Contains(h, <<"s", "o", "l", "i", "d">>)
                \/ Contains(h, <<"S", "O", "L", "I", "D">>) THEN "STL_ASCII"
        ELSE IF Contains(h, <<"p", "l", "y">>) THEN "PLY_ASCII"
        ELSE IF Contains(h, <<"O", "F", "F">>) THEN "OFF"
        ELSE IF Contains(h, <<"S", "U", "2", "_", "M", "E", "S", "H">>) THEN "SU2"
        ELSE "UNKNOWN"

\* a detectFormat that looks at the extension only when the file exists
detectFormat_ExistingOnly(filePath, f) ==
    IF ~f.exists THEN Detected("UNKNOWN")
    ELSE IF getFileExtension(filePath) = <<".", "o", "b", "j">> THEN Detected("OBJ")
    ELSE IF getFileExtension(filePath) = <<".", "o", "f", "f">> THEN Detected("OFF")
    ELSE Detected(HelperHeader(f))

detectFormat(filePath, f) ==
    LET ext == getFileExtension(filePath)
    IN  IF ext = <<".", "v", "t", "k">> THEN Detected("VTK_LEGACY")
        ELSE IF ext \in {<<".", "v", "t", "u">>, <<".", "v", "t", "p">>,
                         <<".", "v", "t", "i">>, <<".", "v", "t", "s">>}
        THEN Detected("VTK_XML")
        ELSE IF ext = <<".", "c", "g", "n", "s">> THEN Detected("CGNS")
        ELSE IF ext = <<".", "m", "s", "h">> THEN Detected(HelperGmsh(f))
        ELSE IF ext = <<".", "s", "t", "l">> THEN Detected(HelperStl(f))
        ELSE IF ext = <<".", "o", "b", "j">> THEN Detected("OBJ")
        ELSE IF ext = <<".", "p", "l", "y">> THEN Detected(HelperPly(f))
        ELSE IF ext = <<".", "o", "f", "f">> THEN Detected("OFF")
        ELSE IF ext = <<".", "s", "u", "2">> THEN Detected("SU2")
        ELSE IF f.exists /\ f.isDir /\ f.hasPolyMesh THEN Detected("OPENFOAM")
        ELSE Detected(HelperHeader(f))

\* MeshHelper::detectFormatFromExtension
detectFormatFromExtension(filePath) ==
    LET ext == getFileExtension(filePath)
    IN  IF ext = <<".", "v", "t", "k">> THEN Detected("VTK_LEGACY")
        ELSE IF ext \in {<<".", "v", "t", "u">>, <<".", "v", "t", "p">>,
                         <<".", "v", "t", "i">>, <<".", "v", "t", "s">>}
        THEN Detected("VTK_XML")
        ELSE IF ext = <<".", "c", "g", "n", "s">> THEN Detected("CGNS")
        ELSE IF ext = <<".", "m", "s", "h">> THEN Detected("GMSH_V4")
        ELSE IF ext = <<".", "s", "t", "l">> THEN Detected("STL_BINARY")
        ELSE IF ext = <<".", "o", "b", "j">> THEN Detected("OBJ")
        ELSE IF ext = <<".", "p", "l", "y">> THEN Detected("PLY_ASCII")
        ELSE IF ext = <<".", "o", "f", "f">> THEN Detected("OFF")
        ELSE IF ext = <<".", "s", "u", "2">> THEN Detected("SU2")
        ELSE Detected("UNKNOWN")

\* ------------------------------------------------------ MeshReader::readSTL
\* A line of an ASCII STL file after the trims the parser applies: k is
\* "facet" for a line that starts with "facet ", "vertex" for one that starts
\* with "vertex ", "outer loop", "endloop" and "endfacet" for a line equal to
\* that text, "endsolid" for one that starts with it, "empty" for an empty
\* line and "other" for the rest; t holds the tokens read as floats (for a
\* facet line those after the word that follows "facet "); r holds the text.
StlEof == [k |-> "EOF", t |-> <<>>, r |-> <<>>]
StlLineAt(lines, i) == IF i <= Len(lines) THEN lines[i] ELSE StlEof

\* the cell is made on the points of the previous triangle when there is one
AddTriangle_Welded(mesh, nine) ==
    LET startIndex == IF mesh.points = <<>> THEN 0 ELSE Len(mesh.points) \div 3 - 3
    IN  [points |-> mesh.points \o nine,
         cells |-> Append(mesh.cells,
                          Cell("TRIANGLE", <<startIndex, startIndex + 1, startIndex + 2>>))]

\* the points and the cell of one triangle are appended
AddTriangle(mesh, nine) ==
    LET startIndex == Len(mesh.points) \div 3
    IN  [points |-> mesh.points \o nine,
         cells |-> Append(mesh.cells,
                          Cell("TRIANGLE", <<startIndex, startIndex + 1, startIndex + 2>>))]

StlUnexpectedEof == <<"Invalid ASCII STL file: unexpected end of file">>

\* lines 1312-1433: the lines of one facet, the "facet " line being lines[i];
\* gives the failure, or the nine coordinates
StlFacet(lines, i) ==
    LET vs == {j \in 1..3 : StlLineAt(lines, i + 1 + j).k # "vertex"
                            \/ ~ThreeFloats(StlLineAt(lines, i + 1 + j).t)}
        j == CHOOSE m \in vs : \A n \in vs : m <= n
        bad(msg) == [ok |-> FALSE, msg |-> msg, nine |-> <<>>]
        v(n) == StlLineAt(lines, i + 1 + n).t
        l1 == StlLineAt(lines, i + 1)
        l5 == StlLineAt(lines, i + 5)
        l6 == StlLineAt(lines, i + 6)
    IN  IF ~ThreeFloats(lines[i].t)
        THEN bad(<<"Invalid ASCII STL file: malformed normal vector">>)
        ELSE IF l1.k = "EOF" THEN bad(StlUnexpectedEof)
        ELSE IF l1.k # "outer loop"
        THEN bad(<<"Invalid ASCII STL file: expected 'outer loop', got '">> \o l1.r \o <<"'">>)
        ELSE IF vs # {}
        THEN IF StlLineAt(lines, i + 1 + j).k = "EOF" THEN bad(StlUnexpectedEof)
             ELSE IF StlLineAt(lines, i + 1 + j).k # "vertex"
             THEN bad(<<"Invalid ASCII STL file: expected 'vertex'">>)
             ELSE bad(<<"Invalid ASCII STL file: malformed vertex coordinates">>)
        ELSE IF l5.k = "EOF" THEN bad(StlUnexpectedEof)
        ELSE IF l5.k # "endloop"
        THEN bad(<<"Invalid ASCII STL file: expected 'endloop', got '">> \o l5.r \o <<"'">>)
        ELSE IF l6.k = "EOF" THEN bad(StlUnexpectedEof)
        ELSE IF l6.k # "endfacet"
        THEN bad(<<"Invalid ASCII STL file: expected 'endfacet', got '">> \o l6.r \o <<"'">>)
        ELSE [ok |-> TRUE, msg |-> <<>>,
              nine |-> <<v(1)[1].v, v(1)[2].v, v(1)[3].v, v(2)[1].v, v(2)[2].v, v(2)[3].v,
                         v(3)[1].v, v(3)[2].v, v(3)[3].v>>]

\* lines 1300-1440: the loop over the lines after the first
RECURSIVE StlAsciiLoop(_, _, _)
StlAsciiLoop(lines, i, mesh) ==
    IF i > Len(lines) \/ lines[i].k = "endsolid"
    THEN IF mesh.cells = <<>>
         THEN Fail("MESH_EMPTY", <<"No triangles found in ASCII STL file">>, mesh)
         ELSE Ok(mesh)
    ELSE IF lines[i].k = "facet"
    THEN LET f == StlFacet(lines, i)
         IN  IF ~f.ok THEN Fail("READ_FAILED", f.msg, mesh)
             ELSE StlAsciiLoop(lines, i + 7, AddTriangle(mesh, f.nine))
    ELSE StlAsciiLoop(lines, i + 1, mesh)

readSTLASCII(file, mesh) ==
    IF file.stlLines = <<>>
    THEN Fail("READ_FAILED", <<"Invalid ASCII STL file: empty file">>, mesh)
    ELSE StlAsciiLoop(file.stlLines, 2, mesh)

MAX_TRIANGLES == 10000000

\* lines 1538-1577: triangleCount records are read
RECURSIVE StlBinaryLoop(_, _, _)
StlBinaryLoop(file, i, mesh) ==
    IF i > file.triangleCount
    THEN IF mesh.cells = <<>>
         THEN Fail("MESH_EMPTY", <<"No triangles found in binary STL file">>, mesh)
         ELSE Ok(mesh)
    ELSE IF file.size < 84 + 50 * (i - 1) + 12
    THEN Fail("READ_FAILED", <<"Invalid binary STL file: incomplete normal vector">>, mesh)
    ELSE IF file.size < 84 + 50 * (i - 1) + 48
    THEN Fail("READ_FAILED", <<"Invalid binary STL file: incomplete vertex data">>, mesh)
    ELSE IF file.size < 84 + 50 * i
    THEN Fail("READ_FAILED", <<"Invalid binary STL file: incomplete attribute count">>, mesh)
    ELSE StlBinaryLoop(file, i + 1, AddTriangle(mesh, file.stlTris[i]))

\* readSTLBinary without the cross-check of lines 1517-1521
readSTLBinary_NoSizeCheck(file, mesh) ==
    IF file.size < 80
    THEN Fail("READ_FAILED", <<"Invalid binary STL file: incomplete header">>, mesh)
    ELSE IF file.size < 84
    THEN Fail("READ_FAILED", <<"Invalid binary STL file: incomplete triangle count">>, mesh)
    ELSE IF file.triangleCount = 0
    THEN Fail("MESH_EMPTY", <<"Binary STL file contains no triangles">>, mesh)
    ELSE IF file.triangleCount < 0 \/ file.triangleCount > MAX_TRIANGLES
    THEN Fail("READ_FAILED", <<"Binary STL file declares too many triangles: ">>, mesh)
    ELSE StlBinaryLoop(file, 1, mesh)

\* triangleCount is a uint32_t: a value of 2^31 or more is held as the negative
\* integer with the same 32 bits
readSTLBinary(file, mesh) ==
    IF file.size < 80
    THEN Fail("READ_FAILED", <<"Invalid binary STL file: incomplete header">>, mesh)
    ELSE IF file.size < 84
    THEN Fail("READ_FAILED", <<"Invalid binary STL file: incomplete triangle count">>, mesh)
    ELSE IF file.triangleCount = 0
    THEN Fail("MESH_EMPTY", <<"Binary STL file contains no triangles">>, mesh)
    ELSE IF file.triangleCount < 0 \/ file.triangleCount > MAX_TRIANGLES
    THEN \* the text goes on with the count and the ceiling
         Fail("READ_FAILED", <<"Binary STL file declares too many triangles: ">>, mesh)
    ELSE IF file.size < 84 + file.triangleCount * 50
    THEN Fail("READ_FAILED", <<"Binary STL file is too small for declared triangle count">>,
              mesh)
    ELSE StlBinaryLoop(file, 1, mesh)

\* lines 1538-1577 as a history: one "read record" for every iteration of the
\* loop that starts (its first file.read is attempted)
RECURSIVE StlRecordSteps(_, _)
StlRecordSteps(file, i) ==
    IF i > file.triangleCount THEN <<>>
    ELSE IF file.size < 84 + 50 * i THEN <<"read record">>
    ELSE <<"read record">> \o StlRecordSteps(file, i + 1)

StlCountRead == <<"read header", "read count">>

\* the reservation made as soon as the count is known
StlBinarySteps_ReserveFirst(file) ==
    IF file.size < 80 THEN <<"read header">>
    ELSE IF file.size < 84 \/ file.triangleCount = 0 THEN StlCountRead
    ELSE IF file.triangleCount < 0 \/ file.triangleCount > MAX_TRIANGLES
    THEN StlCountRead \o <<"reserve">>
    ELSE IF file.size < 84 + file.triangleCount * 50
    THEN StlCountRead \o <<"reserve", "ceiling passed">>
    ELSE StlCountRead \o <<"reserve", "ceiling passed", "size passed">>
           \o StlRecordSteps(file, 1)

\* readSTLBinary as a history of what it does, in order: the two reads of
\* lines 1478-1490, the checks of 1494-1505 and 1517-1521 when they pass, the
\* reserve of 1524-1527 (points.reserve(triangleCount * 9) and
\* cells.reserve(triangleCount)), and the record loop
StlBinarySteps(file) ==
    IF file.size < 80 THEN <<"read header">>
    ELSE IF file.size < 84 \/ file.triangleCount = 0 THEN StlCountRead
    ELSE IF file.triangleCount < 0 \/ file.triangleCount > MAX_TRIANGLES
    THEN StlCountRead
    ELSE IF file.size < 84 + file.triangleCount * 50
    THEN StlCountRead \o <<"ceiling passed">>
    ELSE StlCountRead \o <<"ceiling passed", "size passed", "reserve">>
           \o StlRecordSteps(file, 1)

\* readSTL hands the file to readSTLBinary
StlBinaryRun(f) ==
    /\ f.kind = "STL" /\ f.exists /\ f.readable
    /\ detectFormatFromHeader(f.path, f) = Detected("STL_BINARY")

readSTL(file) ==
    LET d == detectFormatFromHeader(file.path, file)
    IN  IF ~file.exists
        THEN Fail("FILE_NOT_EXIST", <<"File does not exist: ">> \o file.path, EmptyMesh)
        ELSE IF ~file.readable
        THEN Fail("READ_FAILED", <<"Failed to open file: ">> \o file.path, EmptyMesh)
        ELSE IF d.threw
        THEN Fail("READ_FAILED", <<"Error reading STL file: ">>, EmptyMesh)
        ELSE IF d.format = "STL_ASCII" THEN readSTLASCII(file, EmptyMesh)
        ELSE IF d.format = "STL_BINARY" THEN readSTLBinary(file, EmptyMesh)
        ELSE Fail("FORMAT_UNSUPPORTED", <<"Not a valid STL file format">>, EmptyMesh)

\* STL files
P_stl == <<"a", "/", "m", ".", "s", "t", "l">>
StlL(k, t, text) == [k |-> k, t |-> t, r |-> <<text>>]
Zeros == <<Num(0), Num(0), Num(1)>>
StlFacetLine == StlL("facet", Zeros, "facet normal 0 0 1")
StlOuter == StlL("outer loop", <<>>, "outer loop")
StlVertex(x) == StlL("vertex", <<Num(x), Num(0), Num(0)>>, "vertex")
StlEndloop == StlL("endloop", <<>>, "endloop")
StlEndfacet == StlL("endfacet", <<>>, "endfacet")
StlGoodFacet ==
    <<StlFacetLine, StlOuter, StlVertex(1), StlVertex(2), StlVertex(3), StlEndloop, StlEndfacet>>
StlBlockAlphabet ==
    { StlGoodFacet,
      [StlGoodFacet EXCEPT ![1] = StlL("facet", <<Bad>>, "facet normal x")],
      [StlGoodFacet EXCEPT ![2] = StlL("other", <<>>, "outerloop")],
      [StlGoodFacet EXCEPT ![4] = StlL("vertex", <<Num(1), Bad>>, "vertex 1 x")],
      [StlGoodFacet EXCEPT ![5] = StlEndloop],
      [StlGoodFacet EXCEPT ![7] = StlL("other", <<>>, "end facet")],
      SubSeq(StlGoodFacet, 1, 3),
      <<StlL("other", <<>>, "color 1 0 0")>>,
      <<StlL("empty", <<>>, "")>>,
      <<StlL("endsolid", <<>>, "endsolid m")>> }
Solid == <<"s", "o", "l", "i", "d">>
StlAsciiFile(blocks) ==
    [NoFile EXCEPT !.kind = "STL", !.path = P_stl, !.head = Solid,
                   !.stlLines = <<StlL("other", <<>>, "solid m")>> \o Flatten(blocks)]
StlAsciiFiles == {StlAsciiFile(b) : b \in SeqsUpTo(StlBlockAlphabet, MaxStlBlocks)}
StlTri(x) == <<x, 0, 0, 0, x, 0, 0, 0, x>>
StlBinaryFile(head, size, count, tris) ==
    [NoFile EXCEPT !.kind = "STL", !.path = P_stl, !.head = head, !.size = size,
                   !.triangleCount = count, !.stlTris = tris]
StlBinaryFiles ==
    {StlBinaryFile(<<>>, 84 + 50 * Len(t) + extra, n, t) :
       t \in SeqsUpTo({StlTri(1), StlTri(2)}, MaxStlTris),
       extra \in {0, 49},
       n \in 0..(MaxStlTris + 1) \cup {MAX_TRIANGLES, MAX_TRIANGLES + 1, -1}}
       \cup {StlBinaryFile(<<>>, sz, 0, <<>>) : sz \in {0, 79, 80, 83}}
       \cup {[StlBinaryFile(Solid, 134, 1, <<StlTri(1)>>)   \* the 80 bytes start with "solid"
                 EXCEPT !.stlLines = <<StlL("other", <<>>, "solid")>>]}
StlFiles == StlAsciiFiles \cup StlBinaryFiles

\* ------------------------------------------------------ MeshReader::readAuto
\* readSU2 and readOpenFOAM: not implemented, meshData untouched
readSU2(mesh) ==
    Fail("FORMAT_VERSION_INVALID", <<"SU2 format read not implemented">>, mesh)
readOpenFOAM(mesh) ==
    Fail("FORMAT_VERSION_INVALID", <<"OpenFOAM format read not implemented">>, mesh)

\* readVTK, readCGNS and readGmsh hand the file to the VTK / Gmsh library; the
\* library's verdict on the file is the file's engineOk, its mesh EngineMesh
HAVE_CGNS == FALSE
HAVE_GMSH == FALSE
EngineMesh == [points |-> <<0, 0, 0>>, cells |-> <<Cell("VERTEX", <<0>>)>>]
readVTK(f) ==
    IF f.engineOk THEN OkKeep(EngineMesh)
    ELSE Fail("READ_FAILED", <<"Failed to read VTK file or file is empty">>, EmptyMesh)
readCGNS(f) ==
    IF ~HAVE_CGNS
    THEN Fail("DEPENDENCY_MISSING", <<"CGNS support is not available (HAVE_CGNS not defined)">>,
              EmptyMesh)
    ELSE IF f.engineOk THEN OkKeep(EngineMesh)
    ELSE Fail("READ_FAILED", <<"Failed to read CGNS file or file is empty">>, EmptyMesh)
readGmsh(f) ==
    IF ~HAVE_GMSH
    THEN Fail("READ_FAILED",
              <<"Gmsh API is not available. Please install Gmsh and rebuild the project.">>,
              EmptyMesh)
    ELSE IF f.engineOk THEN OkKeep(EngineMesh)
    ELSE Fail("READ_FAILED", <<"Error opening Gmsh file: ">> \o f.path, EmptyMesh)

readAuto(filePath, f, mesh) ==
    LET d == detectFormatFromHeader(filePath, f)
    IN  IF ~f.exists THEN Fail("FILE_NOT_EXIST", <<"File does not exist: ">> \o filePath, mesh)
        ELSE IF d.threw THEN Threw(mesh)
        ELSE IF d.format = "UNKNOWN"
        THEN Fail("FORMAT_UNSUPPORTED", <<"Cannot detect file format: ">> \o filePath, mesh)
        ELSE IF d.format \in {"VTK_LEGACY", "VTK_XML"} THEN readVTK(f)
        ELSE IF d.format = "CGNS" THEN readCGNS(f)
        ELSE IF d.format \in {"GMSH_V2", "GMSH_V4"} THEN readGmsh(f)
        ELSE IF d.format \in {"STL_ASCII", "STL_BINARY"} THEN readSTL(f)
        ELSE IF d.format = "OBJ" THEN readOBJ(f)
        ELSE IF d.format \in {"PLY_ASCII", "PLY_BINARY"} THEN readPLY(f)
        ELSE IF d.format = "OFF" THEN readOFF(f)
        ELSE IF d.format = "SU2" THEN readSU2(mesh)
        ELSE IF d.format = "OPENFOAM" THEN readOpenFOAM(mesh)
        ELSE Fail("FORMAT_UNSUPPORTED", <<"Format not supported: ">> \o filePath, mesh)

\* the reader readAuto hands the file to, "none" when it returns before that
AutoTarget(filePath, f) ==
    LET d == detectFormatFromHeader(filePath, f)
    IN  IF ~f.exists \/ d.threw \/ d.format = "UNKNOWN" THEN "none"
        ELSE IF d.format \in {"VTK_LEGACY", "VTK_XML"} THEN "readVTK"
        ELSE IF d.format = "CGNS" THEN "readCGNS"
        ELSE IF d.format \in {"GMSH_V2", "GMSH_V4"} THEN "readGmsh"
        ELSE IF d.format \in {"STL_ASCII", "STL_BINARY"} THEN "readSTL"
        ELSE IF d.format = "OBJ" THEN "readOBJ"
        ELSE IF d.format \in {"PLY_ASCII", "PLY_BINARY"} THEN "readPLY"
        ELSE IF d.format = "OFF" THEN "readOFF"
        ELSE IF d.format = "SU2" THEN "readSU2"
        ELSE IF d.format = "OPENFOAM" THEN "readOpenFOAM"
        ELSE "none"

\* the readers that start with meshData.clear() and end a successful read
\* with meshData.calculateMetadata()
ClearingReaders ==
    {"readOBJ", "readOFF", "readPLY", "readSTL", "readVTK", "readCGNS", "readGmsh"}
\* the metadata of the caller's MeshData after function entry returned r on
\* file f, md being the metadata before the call
MetadataBy(entry, f, md, r) ==
    LET reader == IF entry = "readAuto" THEN AutoTarget(f.path, f) ELSE entry
    IN  IF reader \notin ClearingReaders THEN md
        ELSE IF ~r.ok THEN DefaultMetadata
        ELSE IF reader = "readOFF"
        THEN [calculateMetadata(r.mesh, DefaultMetadata) EXCEPT !.format = "OFF"]
        ELSE calculateMetadata(r.mesh, DefaultMetadata)

\* ------------------------------------------------------- MeshWriter::write
\* std::filesystem::create_directories: the directory and its ancestors
RECURSIVE Ancestors(_)
Ancestors(dir) ==
    IF dir = <<>> \/ dir = <<"/">> THEN {} ELSE {dir} \cup Ancestors(ParentPath(dir))

\* MeshWriter::ensureDirectoryExists; denied: the directories that cannot be made
ensureDirectoryExists(filePath, dirs, denied) ==
    LET dir == ParentPath(filePath)
    IN  IF dir = <<>> \/ dir \in dirs THEN [ok |-> TRUE, dirs |-> dirs]
        ELSE IF Ancestors(dir) \cap denied # {} THEN [ok |-> FALSE, dirs |-> dirs]
        ELSE [ok |-> TRUE, dirs |-> dirs \cup Ancestors(dir)]

\* writeVTK ... writeOpenFOAM: what each returns in errorCode and errorMsg
WriterStub(targetFormat) ==
    CASE targetFormat \in {"VTK_LEGACY", "VTK_XML"} ->
           [code |-> "FORMAT_VERSION_INVALID", msg |-> <<"VTK format write not implemented">>]
      [] targetFormat = "CGNS" ->
           IF HAVE_CGNS
           THEN [code |-> "FORMAT_VERSION_INVALID", msg |-> <<"CGNS format write not implemented">>]
           ELSE [code |-> "DEPENDENCY_MISSING", msg |-> <<"CGNS dependency library missing">>]
      [] targetFormat \in {"GMSH_V2", "GMSH_V4"} ->
           IF HAVE_GMSH
           THEN [code |-> "FORMAT_VERSION_INVALID", msg |-> <<"Gmsh format write not implemented">>]
           ELSE [code |-> "DEPENDENCY_MISSING", msg |-> <<"Gmsh dependency library missing">>]
      [] targetFormat \in {"STL_ASCII", "STL_BINARY"} ->
           [code |-> "FORMAT_VERSION_INVALID", msg |-> <<"STL format write not implemented">>]
      [] targetFormat = "OBJ" ->
           [code |-> "FORMAT_VERSION_INVALID", msg |-> <<"OBJ format write not implemented">>]
      [] targetFormat \in {"PLY_ASCII", "PLY_BINARY"} ->
           [code |-> "FORMAT_VERSION_INVALID", msg |-> <<"PLY format write not implemented">>]
      [] targetFormat = "OFF" ->
           [code |-> "FORMAT_VERSION_INVALID", msg |-> <<"OFF format write not implemented">>]
      [] targetFormat = "SU2" ->
           [code |-> "FORMAT_VERSION_INVALID", msg |-> <<"SU2 format write not implemented">>]
      [] targetFormat = "OPENFOAM" ->
           [code |-> "FORMAT_VERSION_INVALID", msg |-> <<"OpenFOAM format write not implemented">>]
      [] OTHER -> [code |-> "FORMAT_UNSUPPORTED", msg |-> <<"Format not supported">>]

\* MeshWriter::write: the flag, the out-parameters, the directories and the
\* files that exist afterwards (no writer opens a file)
write(mesh, filePath, targetFormat, dirs, denied, files) ==
    LET e == ensureDirectoryExists(filePath, dirs, denied)
        w == WriterStub(targetFormat)
    IN  IF isEmpty(mesh)
        THEN [ok |-> FALSE, code |-> "MESH_EMPTY", msg |-> <<"Mesh data is empty">>,
              dirs |-> dirs, files |-> files]
        ELSE IF ~e.ok
        THEN [ok |-> FALSE, code |-> "WRITE_FAILED", msg |-> <<"Cannot create output directory">>,
              dirs |-> dirs, files |-> files]
        ELSE [ok |-> FALSE, code |-> w.code, msg |-> w.msg, dirs |-> e.dirs, files |-> files]

\* ------------------------------------------------------ the files on disk
P_cube == <<"a", "/", "c", ".", "o", "b", "j">>        \* a/c.obj: one vertex, one face
P_cube2 == <<"b", "/", "c", ".", "O", "B", "J">>       \* b/c.OBJ: same base name
P_gone == <<"a", "/", "g", ".", "o", "b", "j">>        \* a/g.obj: not on disk
P_zero == <<"a", "/", "z", ".", "o", "f", "f">>        \* a/z.off: OFF, counts 0 0 0
P_coff == <<"a", "/", "k", ".", "o", "f", "f">>        \* a/k.off: first token COFF
P_ply == <<"a", "/", "p", ".", "p", "l", "y">>         \* a/p.ply: binary, one face
P_text == <<"a", "/", "t", ".", "t", "x", "t">>        \* a/t.txt: no known header
P_su2 == <<"a", "/", "s", ".", "s", "u", "2">>         \* a/s.su2
P_vtk == <<"a", "/", "v", ".", "v", "t", "k">>         \* a/v.vtk: the library reads it
P_short == <<"x">>                                     \* x: a one-character path

PlyEnd == PlyLine("end_header", "", Num(0))
Disk ==
    { [ObjFile(<<ObjV(Num(1), Num(2), Num(3)), ObjF(<< <<"1">>, <<"1">>, <<"1">> >>)>>)
         EXCEPT !.path = P_cube],
      [ObjFile(<<ObjV(Num(4), Num(5), Num(6)), ObjF(<< <<"1">>, <<"1">>, <<"1">> >>)>>)
         EXCEPT !.path = P_cube2],
      [OffFile(<<"OFF">>, <<Num(0), Num(0), Num(0)>>) EXCEPT !.path = P_zero],
      [OffFile(<<"COFF">>, <<Num(1), Num(0), Num(0), Num(1), Num(1), Num(1)>>)
         EXCEPT !.path = P_coff],
      [PlyFile("ply", <<PlyLine("format", "binary_little_endian", Num(1)),
                        PlyLine("element", "vertex", Num(1)),
                        PlyLine("element", "face", Num(1)), PlyEnd>>,
               PlyVertexBytes(1) \o PlyFace(<<0, 0, 0>>))
         EXCEPT !.path = P_ply,
                !.head = <<"p", "l", "y", "\n", "f", "o", "r", "m", "a", "t", " ", "b">>],
      StlAsciiFile(<<StlGoodFacet>>),                    \* a/m.stl: one facet
      [NoFile EXCEPT !.path = P_text, !.head = <<"h", "e", "l", "l", "o">>],
      [NoFile EXCEPT !.path = P_su2, !.head = <<"N", "D", "I", "M", "E">>],
      [NoFile EXCEPT !.path = P_vtk, !.engineOk = TRUE,
                     !.head = <<"#", " ", "v", "t", "k">>],
      [ObjFile(<<ObjV(Num(1), Num(2), Num(3)), ObjF(<< <<"1">>, <<"1">>, <<"1">> >>)>>)
         EXCEPT !.path = P_short] }

\* the file a path names; a path that names nothing does not exist
FileAt(path) ==
    IF \E f \in Disk : f.path = path THEN CHOOSE f \in Disk : f.path = path
    ELSE [NoFile EXCEPT !.path = path, !.exists = FALSE]

\* directories: a, b and o exist; n can be made; d cannot
D_a == <<"a">>
D_b == <<"b">>
D_out == <<"o">>
D_new == <<"n">>
D_deep == <<"n", "/", "m">>
D_denied == <<"d">>
InitialDirs == {D_a, D_b, D_out}

\* -------------------------------------------------- MeshConverter::convert
\* a call of convert: its arguments, its out-parameters as the caller sees
\* them, its local meshData, where it stands, and (history) the stages run
Call(src, dst, srcFormat, dstFormat) ==
    [pc |-> "srcCheck", srcFilePath |-> src, dstFilePath |-> dst,
     srcFormat |-> srcFormat, dstFormat |-> dstFormat,
     errorCode |-> "UNSET", errorMsg |-> <<>>, ret |-> FALSE,
     meshData |-> EmptyMesh, trace |-> <<>>]

NoCall == [Call(<<>>, <<>>, "UNKNOWN", "UNKNOWN") EXCEPT !.pc = "none"]

Ran(stage, ok, code, msg) == [stage |-> stage, ok |-> ok, code |-> code, msg |-> msg]

\* return false with the given out-parameters
ConvertFail(c, code, msg, ran) ==
    [c EXCEPT !.pc = "returned", !.ret = FALSE, !.errorCode = code, !.errorMsg = msg,
              !.trace = Append(@, ran)]

\* lines 59-64: the source must exist
ConvertSrcCheck(c) ==
    IF ~FileAt(c.srcFilePath).exists
    THEN ConvertFail(c, "FILE_NOT_EXIST",
                     <<"Source file does not exist: ">> \o c.srcFilePath,
                     Ran("srcCheck", FALSE, "FILE_NOT_EXIST", <<>>))
    ELSE [c EXCEPT !.pc = "ensureDir", !.trace = Append(@, Ran("srcCheck", TRUE, "SUCCESS", <<>>))]

\* lines 66-77: the directory of the destination is made when it is missing
ConvertEnsureDir(c, dirs, denied) ==
    LET dstDir == ParentPath(c.dstFilePath)
        passed == [c EXCEPT !.pc = "read",
                            !.trace = Append(@, Ran("ensureDir", TRUE, "SUCCESS", <<>>))]
    IN  IF dstDir = <<>> \/ dstDir \in dirs THEN [call |-> passed, dirs |-> dirs]
        ELSE IF Ancestors(dstDir) \cap denied # {}
        THEN [call |-> ConvertFail(c, "WRITE_FAILED",
                                   <<"Cannot create target directory: ">> \o dstDir,
                                   Ran("ensureDir", FALSE, "WRITE_FAILED", <<>>)),
              dirs |-> dirs]
        ELSE [call |-> passed, dirs |-> dirs \cup Ancestors(dstDir)]

CatalogPaths == {P_cube, P_cube2, P_gone, P_zero, P_coff, P_ply, P_stl, P_text, P_su2, P_vtk,
                 P_short}
ReadTable == [p \in CatalogPaths |-> readAuto(p, FileAt(p), EmptyMesh)]

\* a convert that passes the reader's message on without its prefix
ConvertRead_NoPrefix(c) ==
    LET r == readAuto(c.srcFilePath, FileAt(c.srcFilePath), EmptyMesh)
    IN  IF r.threw
        THEN [c EXCEPT !.pc = "threw", !.trace = Append(@, Ran("read", FALSE, "UNSET", <<>>))]
        ELSE IF ~r.ok
        THEN ConvertFail(c, r.code, r.msg, Ran("read", FALSE, r.code, r.msg))
        ELSE [c EXCEPT !.pc = "write", !.meshData = r.mesh,
                       !.trace = Append(@, Ran("read", TRUE, "SUCCESS", <<>>))]

\* lines 79-99: both branches on srcFormat call readAuto
ConvertRead(c) ==
    LET r == ReadTable[c.srcFilePath]
    IN  IF r.threw
        THEN [c EXCEPT !.pc = "threw", !.trace = Append(@, Ran("read", FALSE, "UNSET", <<>>))]
        ELSE IF ~r.ok
        THEN ConvertFail(c, r.code, <<"Read failed: ">> \o r.msg,
                         Ran("read", FALSE, r.code, r.msg))
        ELSE [c EXCEPT !.pc = "write", !.meshData = r.mesh,
                       !.trace = Append(@, Ran("read", TRUE, "SUCCESS", <<>>))]

\* lines 101-112
ConvertWrite(c, dirs, denied, files) ==
    LET w == write(c.meshData, c.dstFilePath, c.dstFormat, dirs, denied, files)
    IN  [call |-> IF ~w.ok
                  THEN ConvertFail(c, w.code, <<"Write failed: ">> \o w.msg,
                                   Ran("write", FALSE, w.code, w.msg))
                  ELSE [c EXCEPT !.pc = "returned", !.ret = TRUE,
                                 !.trace = Append(@, Ran("write", TRUE, "SUCCESS", <<>>))],
         dirs |-> w.dirs, files |-> w.files]

\* --------------------------------------------- MeshConverter::batchConvert
\* convert from entry to return (or to the exception that leaves it)
\* each stage is entered only when the call stands at it
WriteStage(c, dirs, denied, files) ==
    IF c.pc = "write" THEN ConvertWrite(c, dirs, denied, files)
    ELSE [call |-> c, dirs |-> dirs, files |-> files]
ReadStage(c) == IF c.pc = "read" THEN ConvertRead(c) ELSE c
ReadWriteStages(e, denied, files) == WriteStage(ReadStage(e.call), e.dirs, denied, files)
EnsureStage(c, dirs, denied) ==
    IF c.pc = "ensureDir" THEN ConvertEnsureDir(c, dirs, denied)
    ELSE [call |-> c, dirs |-> dirs]
convert(c, dirs, denied, files) ==
    ReadWriteStages(EnsureStage(ConvertSrcCheck(c), dirs, denied), denied, files)

ensureDstDirExists(dstDir, dirs, denied) ==
    IF dstDir \in dirs THEN [ok |-> TRUE, dirs |-> dirs]
    ELSE IF Ancestors(dstDir) \cap denied # {} THEN [ok |-> FALSE, dirs |-> dirs]
    ELSE [ok |-> TRUE, dirs |-> dirs \cup Ancestors(dstDir)]

\* the error map is a set of entries with one entry per key
Entry(key, code, msg) == [key |-> key, code |-> code, msg |-> msg]
Keys(map) == {e.key : e \in map}
\* errorMap[key] = {code, msg}
Assign(map, key, code, msg) == {e \in map : e.key # key} \cup {Entry(key, code, msg)}

\* a map that records only the first input
EnsureFailedMap_FirstOnly(paths, dstDir) ==
    {Entry(paths[i], "WRITE_FAILED", <<"Cannot create target directory: ">> \o dstDir) :
       i \in DOMAIN paths \cap {1}}

\* lines 130-136: the map after the destination directory could not be made
EnsureFailedMap(paths, dstDir) ==
    {Entry(paths[i], "WRITE_FAILED", <<"Cannot create target directory: ">> \o dstDir) :
       i \in DOMAIN paths}

\* a worker thread: its source, where it stands, what convert gave it, the
\* map and counter it read under the lock, and (history) its wave
Worker(src) ==
    [pc |-> "notLaunched", srcFilePath |-> src, success |-> FALSE,
     errorCode |-> "UNSET", errorMsg |-> <<>>,
     seenMap |-> {}, seenCount |-> 0, wave |-> 0]

\* ------------------------------------------------------------------ state
VARIABLES
    pfile,       \* parser run: the file being read
    meshData,    \* parser run: the caller's MeshData object
    metadata,    \* parser run: the metadata member of that object
    presult,     \* parser run: what the reader returned (ok, code, msg, threw)
    ppc,         \* parser run: "ready" before the call, "done" after it,
                 \* "again" after a second call on the same file
    pentry,      \* parser run: the function the caller called
    meshFirst,   \* history: the MeshData the first call left behind
    psteps,      \* history: what readSTLBinary did, in order
    detected,    \* detector run: what the detector returned (format, threw)
    call,        \* single conversion: the call of convert
    dirs,        \* the directories that exist
    denied,      \* the directories that cannot be created
    files,       \* the destination files that have been written
    srcFilePaths, dstDir, dstFormat,   \* batchConvert: its arguments
    errorMap,        \* batchConvert: the caller's map
    entryMap,        \* history: the caller's map when batchConvert was entered
    successCount,
    errorMapMutex,   \* 0, or the worker that holds the mutex
    threads,         \* the vector of threads: workers launched and not yet cleared
    maxThreads,      \* std::thread::hardware_concurrency()
    currentThread,
    mpc,             \* where the calling thread stands
    idx,             \* the next source of the for loop
    joinIdx,         \* the next thread of a join loop
    workers,         \* worker i converts srcFilePaths[i]
    waveNo,          \* history: the waves joined so far
    ret              \* the value batchConvert returned

parseVars == <<pfile, meshData, metadata, presult, ppc, pentry, meshFirst, psteps, detected>>
diskVars == <<dirs, denied, files>>
batchVars == <<srcFilePaths, dstDir, dstFormat, errorMap, entryMap, successCount,
               errorMapMutex, threads, maxThreads, currentThread, mpc, idx, joinIdx,
               workers, waveNo, ret>>
vars == <<pfile, meshData, metadata, presult, ppc, pentry, meshFirst, psteps, detected,
          call, dirs, denied, files,
          srcFilePaths, dstDir, dstFormat, errorMap, entryMap, successCount,
          errorMapMutex, threads, maxThreads, currentThread, mpc, idx, joinIdx,
          workers, waveNo, ret>>

NoResult == [ok |-> FALSE, code |-> "UNSET", msg |-> <<>>, threw |-> FALSE]
Outcome(r) == [ok |-> r.ok, code |-> r.code, msg |-> r.msg, threw |-> r.threw]

\* the parts of the state a specification does not use
NoDetection == [format |-> "NONE", threw |-> FALSE]
FreshParse == pentry = "none" /\ meshFirst = EmptyMesh /\ psteps = <<>> /\ detected = NoDetection
IdleParse ==
    /\ pfile = NoFile /\ meshData = EmptyMesh /\ metadata = DefaultMetadata
    /\ presult = NoResult /\ ppc = "off" /\ FreshParse
IdleConvert == call = NoCall
IdleBatch ==
    /\ srcFilePaths = <<>> /\ dstDir = <<>> /\ dstFormat = "UNKNOWN"
    /\ errorMap = {} /\ entryMap = {} /\ successCount = 0 /\ errorMapMutex = 0
    /\ threads = <<>> /\ maxThreads = 0 /\ currentThread = 0 /\ mpc = "off"
    /\ idx = 0 /\ joinIdx = 0 /\ workers = <<>> /\ waveNo = 0 /\ ret = 0
InitDisk == dirs = InitialDirs /\ denied = {D_denied} /\ files = {}

\* ------------------------------------------- a parser called on one file
\* the files handed to the readers that are not implemented
StubFiles ==
    { [NoFile EXCEPT !.kind = "SU2", !.path = P_su2, !.head = <<"N", "D", "I", "M", "E">>],
      [NoFile EXCEPT !.kind = "OPENFOAM", !.path = <<"a", "/", "f", "o", "a", "m">>,
                     !.isDir = TRUE, !.hasPolyMesh = TRUE] }

InitParse ==
    /\ pfile \in ObjFiles \cup OffFiles \cup PlyFiles \cup StlFiles \cup StubFiles
    /\ meshData \in {EmptyMesh, DirtyMesh}
    /\ metadata = calculateMetadata(meshData, DefaultMetadata)
    /\ presult = NoResult
    /\ ppc = "ready"
    /\ FreshParse
    /\ IdleConvert /\ InitDisk /\ IdleBatch

\* the function entry called on file f with a MeshData object that holds m
ParseBy(entry, f, m) ==
    CASE entry = "readOBJ" -> readOBJ(f)
      [] entry = "readOFF" -> readOFF(f)
      [] entry = "readPLY" -> readPLY(f)
      [] entry = "readSTL" -> readSTL(f)
      [] entry = "readSU2" -> readSU2(m)
      [] entry = "readOpenFOAM" -> readOpenFOAM(m)
      [] entry = "readAuto" -> readAuto(f.path, f, m)

Parsed(entry, r) ==
    /\ meshData' = r.mesh
    /\ metadata' = MetadataBy(entry, pfile, metadata, r)
    /\ presult' = Outcome(r)
    /\ ppc' = "done"
    /\ pentry' = entry
    /\ meshFirst' = r.mesh
    /\ psteps' = IF StlBinaryRun(pfile) THEN StlBinarySteps(pfile) ELSE <<>>
    /\ UNCHANGED <<pfile, detected, call, diskVars, batchVars>>

ReadOBJ == ppc = "ready" /\ pfile.kind = "OBJ" /\ Parsed("readOBJ", readOBJ(pfile))
ReadOFF == ppc = "ready" /\ pfile.kind = "OFF" /\ Parsed("readOFF", readOFF(pfile))
ReadPLY == ppc = "ready" /\ pfile.kind = "PLY" /\ Parsed("readPLY", readPLY(pfile))
ReadSTL == ppc = "ready" /\ pfile.kind = "STL" /\ Parsed("readSTL", readSTL(pfile))
ReadSU2 == ppc = "ready" /\ pfile.kind = "SU2" /\ Parsed("readSU2", readSU2(meshData))
ReadOpenFOAM ==
    ppc = "ready" /\ pfile.kind = "OPENFOAM" /\ Parsed("readOpenFOAM", readOpenFOAM(meshData))
\* readAuto on a file whose extension names its format
ReadAuto ==
    /\ ppc = "ready" /\ pfile.kind \in {"OBJ", "OFF", "STL", "SU2"}
    /\ Parsed("readAuto", readAuto(pfile.path, pfile, meshData))

\* the caller calls the same function on the same file once more, with the
\* object of the first call or with another object
ReadAgain ==
    /\ ppc = "done"
    /\ \E m \in {meshData, EmptyMesh, DirtyMesh} :
          \E r \in {ParseBy(pentry, pfile, m)} :
             /\ meshData' = r.mesh
             /\ metadata' = MetadataBy(pentry, pfile,
                                       IF m = meshData THEN metadata
                                       ELSE calculateMetadata(m, DefaultMetadata), r)
             /\ presult' = Outcome(r)
    /\ ppc' = "again"
    /\ UNCHANGED <<pfile, pentry, meshFirst, psteps, detected, call, diskVars, batchVars>>

\* the caller recomputes the metadata of the object a parser left behind
CalculateMetadata ==
    /\ ppc = "done"
    /\ metadata' = calculateMetadata(meshData, metadata)
    /\ ppc' = "calculated"
    /\ UNCHANGED <<pfile, meshData, presult, pentry, meshFirst, psteps, detected, call,
                   diskVars, batchVars>>

\* MeshData::clear() on the object a parser left behind
Clear ==
    /\ ppc = "done"
    /\ meshData' = EmptyMesh
    /\ metadata' = DefaultMetadata
    /\ ppc' = "cleared"
    /\ UNCHANGED <<pfile, presult, pentry, meshFirst, psteps, detected, call, diskVars,
                   batchVars>>

NextParse ==
    ReadOBJ \/ ReadOFF \/ ReadPLY \/ ReadSTL \/ ReadSU2 \/ ReadOpenFOAM \/ ReadAuto
      \/ ReadAgain \/ CalculateMetadata \/ Clear

SpecParse == InitParse /\ [][NextParse]_vars

\* MeshData invariants 1 and 2 of the data model
IndicesInRange(m) ==
    \A c \in DOMAIN m.cells : \A j \in DOMAIN m.cells[c].pointIndices :
        U32Less(m.cells[c].pointIndices[j], Len(m.points) \div 3)
MeshValid(m) == Len(m.points) % 3 = 0 /\ IndicesInRange(m)

\* C10: a parser that returns success leaves a MeshData whose points.size() is
\* a multiple of 3 and whose every cell index is < points.size()/3.
C10_ParsedMeshValid == (ppc = "done" /\ presult.ok) => MeshValid(meshData)

\* C11: whenever a parser returns failure, the MeshData it leaves behind holds
\* no point and no cell read before the failure.
C11_FailureLeavesNoPartialMesh ==
    (ppc = "done" /\ ~presult.ok /\ ~presult.threw) => isEmpty(meshData)

\* the first call has returned, and it was readSTLBinary that read the file
BinaryStlRead == ppc = "done" /\ StlBinaryRun(pfile)
\* the count is in the range the ceiling check accepts
CountAccepted(f) == f.triangleCount >= 1 /\ f.triangleCount <= MAX_TRIANGLES
\* the declared count implies more bytes than the file has
TooSmall(f) == 84 + 50 * f.triangleCount > f.size

\* C12: a binary STL file whose declared triangle count n, in the accepted
\* range, has 84 + 50*n > file size is rejected with READ_FAILED and the
\* MeshData holds no point and no cell.
C12_TruncatedBinaryRejected ==
    (BinaryStlRead /\ CountAccepted(pfile) /\ TooSmall(pfile))
       => (~presult.ok /\ presult.code = "READ_FAILED" /\ isEmpty(meshData))
\* a file with one whole record and 49 bytes of a second, declaring two
C12_Witness ==
    /\ BinaryStlRead /\ pfile.triangleCount = 2 /\ pfile.size = 84 + 50 + 49
    /\ presult.code = "READ_FAILED" /\ isEmpty(meshData)

\* a file with a structurally valid header that declares or contains no
\* point, triangle or vertex
ZeroElementFile(f) ==
    /\ f.exists /\ f.readable
    /\ CASE f.kind = "STL" ->
               \/ StlBinaryRun(f) /\ f.size >= 84 /\ f.triangleCount = 0
               \/ /\ detectFormatFromHeader(f.path, f) = Detected("STL_ASCII")
                  /\ f.stlLines # <<>>
                  /\ \A i \in DOMAIN f.stlLines : f.stlLines[i].k # "facet"
         [] f.kind = "OBJ" ->
               \A i \in DOMAIN f.lines :
                  /\ f.lines[i].k # "v"
                  /\ ~ObjRefs(f.lines[i].r, <<>>).threw
         [] f.kind = "PLY" ->
               /\ f.hasFirst /\ f.first = "ply"
               /\ \E h \in {PlyHeader(f.plyLines, PlyHeaderStart)} :
                     ~h.bad /\ h.headerEnd /\ h.vertexCount = 0
         [] f.kind = "OFF" ->
               /\ f.hasHeader /\ f.header = <<"OFF">>
               /\ f.toks = <<Num(0), Num(0), Num(0)>>
         [] OTHER -> FALSE

\* C13: every native parser rejects a file with a structurally valid header
\* and zero points/triangles/vertices with MESH_EMPTY, never with READ_FAILED
\* and never with success.
C13_ZeroElementsMeshEmpty ==
    (ppc = "done" /\ ZeroElementFile(pfile))
       => (~presult.ok /\ ~presult.threw /\ presult.code = "MESH_EMPTY")

\* the declared count, an unsigned number, exceeds the ceiling
AboveCeiling(f) == f.triangleCount < 0 \/ f.triangleCount > MAX_TRIANGLES
Before(steps, a, i) == \E j \in 1..(i - 1) : steps[j] = a

\* C14: a binary STL file whose declared triangle count is above 10,000,000
\* yields READ_FAILED with no reservation attempted and no record read; and
\* no reservation happens before the ceiling check and the file-size
\* cross-check have both passed.
C14_NoReserveBeforeChecks ==
    /\ (BinaryStlRead /\ pfile.size >= 84 /\ AboveCeiling(pfile))
          => /\ ~presult.ok /\ presult.code = "READ_FAILED"
             /\ "reserve" \notin Range(psteps)
             /\ "read record" \notin Range(psteps)
    /\ \A i \in DOMAIN psteps :
          psteps[i] = "reserve"
             => Before(psteps, "ceiling passed", i) /\ Before(psteps, "size passed", i)
\* a file of two records that declares 10,000,001 triangles has been rejected
C14_Witness ==
    /\ BinaryStlRead /\ pfile.triangleCount = MAX_TRIANGLES + 1 /\ Len(pfile.stlTris) = 2
    /\ presult.code = "READ_FAILED" /\ psteps = StlCountRead

\* an ASCII STL file of k >= 1 well-formed facets: "solid ...", the facets,
\* and "endsolid ..." or the end of the file
WellFormedAsciiStl(f, k) ==
    /\ f.kind = "STL" /\ f.exists /\ f.readable /\ f.stlTris = <<>>
    /\ Substr0(f.head, 5) = Solid
    /\ k >= 1 /\ Len(f.stlLines) \in {1 + 7 * k, 2 + 7 * k}
    /\ \A i \in 1..k : SubSeq(f.stlLines, 2 + 7 * (i - 1), 1 + 7 * i) = StlGoodFacet
    /\ Len(f.stlLines) = 2 + 7 * k => f.stlLines[2 + 7 * k].k = "endsolid"
\* a binary STL file of k >= 1 whole records: 80 bytes, the count k, k records
WellFormedBinaryStl(f, k) ==
    /\ f.kind = "STL" /\ f.exists /\ f.readable
    /\ k >= 1 /\ f.triangleCount = k /\ Len(f.stlTris) = k /\ f.size = 84 + 50 * k
TriangleSoup(k) ==
    [i \in 1..k |-> Cell("TRIANGLE", <<3 * (i - 1), 3 * (i - 1) + 1, 3 * (i - 1) + 2>>)]

SoupOf(k) ==
    /\ presult.ok
    /\ Len(meshData.points) = 9 * k
    /\ meshData.cells = TriangleSoup(k)
\* the first five bytes of the file, lowercased, read "solid"
SolidHeaded(f) == ToLower(Substr0(f.head, 5)) = Solid

LeadingNumber(ref) ==
    LET slash == IF \E i \in DOMAIN ref : ref[i] = "/"
                 THEN CHOOSE i \in DOMAIN ref : ref[i] = "/" /\ \A j \in 1..(i - 1) : ref[j] # "/"
                 ELSE Len(ref) + 1
    IN  Stoi(SubSeq(ref, 1, slash - 1))
\* every reference of every face line starts with a number >= 1
OneBased(f) ==
    \A i \in DOMAIN f.lines :
       f.lines[i].k = "f" =>
          \A j \in DOMAIN f.lines[i].r :
             LeadingNumber(f.lines[i].r[j]).ok /\ LeadingNumber(f.lines[i].r[j]).v >= 1
\* the cells the claim expects of the face lines, in file order
RECURSIVE FaceCellsExpected(_)
FaceCellsExpected(lines) ==
    IF lines = <<>> THEN <<>>
    ELSE LET l == Head(lines)
             n == Len(l.r)
         IN  (IF l.k = "f" /\ n >= 3
              THEN <<[type |-> IF n = 3 THEN "TRIANGLE" ELSE IF n = 4 THEN "QUAD" ELSE "POLYGON",
                      pointIndices |-> [j \in 1..n |-> LeadingNumber(l.r[j]).v - 1]]>>
              ELSE <<>>)
             \o FaceCellsExpected(Tail(lines))
IsFaceCell(c) == c.type # "LINE"
ShortFace(l) == l.k = "f" /\ Len(l.r) < 3
LongLine(l) == ~ShortFace(l)
WithoutShortFaces(f) == [f EXCEPT !.lines = SelectSeq(f.lines, LongLine)]
ObjRead == ppc = "done" /\ pfile.kind = "OBJ" /\ pfile.exists /\ pfile.readable

\* C16: readOBJ stores every face line with 1-based references as one cell of
\* the leading numbers minus 1, in file order: a triangle for 3 references, a
\* quad for 4, a polygon for more; a face line with fewer than 3 references
\* gives no cell and changes nothing else in the outcome.
C16_ObjFaceCells ==
    (ObjRead /\ OneBased(pfile))
       => /\ presult.ok => SelectSeq(meshData.cells, IsFaceCell) = FaceCellsExpected(pfile.lines)
          /\ \E r \in {readOBJ(WithoutShortFaces(pfile))} :
                presult = Outcome(r) /\ meshData = r.mesh
\* four vertex lines and "f 1 2 3 4" have been read
C16_Witness ==
    /\ ObjRead /\ pfile = ObjRing(4, <<>>)
    /\ presult.ok /\ Len(meshData.points) = 12
    /\ meshData.cells = <<Cell("QUAD", <<0, 1, 2, 3>>)>>

\* an OFF file that has a first line, whose first token is not "OFF"
WrongMagic(f) ==
    /\ f.kind = "OFF" /\ f.exists /\ f.readable /\ f.hasHeader
    /\ (f.header = <<>> \/ f.header[1] # "OFF")

\* C17: an OFF file whose first header token is not "OFF" is rejected with
\* FORMAT_VERSION_INVALID or FORMAT_UNSUPPORTED whatever follows the first
\* line, the MeshData is left empty, and readOFF and readAuto on a ".off"
\* path give the same code.
C17_WrongMagicRejected ==
    (ppc = "done" /\ WrongMagic(pfile) /\ pentry \in {"readOFF", "readAuto"})
       => /\ ~presult.ok /\ ~presult.threw
          /\ presult.code \in {"FORMAT_VERSION_INVALID", "FORMAT_UNSUPPORTED"}
          /\ isEmpty(meshData)
          /\ presult = Outcome(readOFF([pfile EXCEPT !.toks = <<>>]))
\* readAuto has rejected a file "COFF / 1 0 0 / 1 1 1"
C17_Witness ==
    /\ ppc = "done" /\ pentry = "readAuto" /\ pfile.header = <<"COFF">>
    /\ Suffix(pfile.path, 4) = <<".", "o", "f", "f">> /\ Len(pfile.toks) = 6
    /\ presult.code = "FORMAT_VERSION_INVALID" /\ isEmpty(meshData)

\* C18: parsing the same unchanged file twice with the same parser yields the
\* same MeshData, whatever the object of the second parse held before it (the
\* result of the first parse, of another file, or of a failed parse).
C18_ParseIdempotent == ppc = "again" => meshData = meshFirst

\* the kinds of the lines of an ASCII STL file, empty lines left out
RECURSIVE StlKinds(_, _)
StlKinds(lines, i) ==
    IF i > Len(lines) THEN <<>>
    ELSE IF lines[i].k = "empty" THEN StlKinds(lines, i + 1)
    ELSE <<lines[i].k>> \o StlKinds(lines, i + 1)
FacetKinds == <<"facet", "outer loop", "vertex", "vertex", "vertex", "endloop", "endfacet">>
\* the solid line, whole facets with every keyword at its position, endsolid
StrictGrammar(lines) ==
    LET ks == StlKinds(lines, 2)
    IN  /\ lines # <<>>
        /\ Len(ks) % 7 = 1
        /\ ks[Len(ks)] = "endsolid"
        /\ \A j \in 0..((Len(ks) \div 7) - 1) : SubSeq(ks, 7 * j + 1, 7 * j + 7) = FacetKinds
\* C26: the ASCII STL facet grammar is strict: no unexpected line is skipped
\* and no file lacking a required keyword (facet, outer loop, vertex x3,
\* endloop, endfacet, endsolid) is accepted, so a file the parser accepts
\* follows the grammar line by line.
C26_StrictFacetGrammar ==
    (/\ ppc = "done" /\ pentry \in {"readSTL", "readAuto"}
     /\ pfile.kind = "STL" /\ pfile.head = Solid /\ pfile.stlTris = <<>>
     /\ presult.ok)
        => StrictGrammar(pfile.stlLines)
\* what does hold: a deviation inside a facet block is a hard failure
C26_FacetBlockStrict ==
    (/\ ppc = "done" /\ pentry \in {"readSTL", "readAuto"}
     /\ pfile.kind = "STL" /\ pfile.head = Solid /\ pfile.stlTris = <<>>
     /\ \E i \in 2..Len(pfile.stlLines) :
           /\ pfile.stlLines[i].k = "facet"
           /\ \A j \in 2..(i - 1) : pfile.stlLines[j].k \notin {"facet", "endsolid"}
           /\ \E n \in 1..6 : StlLineAt(pfile.stlLines, i + n).k # FacetKinds[n + 1])
        => (~presult.ok /\ presult.code = "READ_FAILED")

\* C27: the format line of the header selects the decoding, so that an ASCII
\* PLY file and a binary PLY file describing the same vertices and faces parse
\* to the same points and cells.
C27_FormatSelectsDecoding ==
    \A fs \in PlyFaceLists :
       (ppc = "done" /\ pentry = "readPLY" /\ pfile = PlyOf("ascii", 1, fs))
          => /\ presult.ok
             /\ meshData = readPLY(PlyOf("binary_little_endian", 1, fs)).mesh
\* what does hold: a binary file is decoded as native 32-bit values
C27_BinaryDecoded ==
    \A fs \in PlyFaceLists :
       (ppc = "done" /\ pentry = "readPLY" /\ pfile = PlyOf("binary_little_endian", 1, fs))
          => /\ presult.ok
             /\ meshData = [points |-> <<1, 1, 1>>,
                            cells |-> [j \in 1..Len(fs) |-> Cell("TRIANGLE", fs[j])]]

\* the fields calculateMetadata assigns
Derived(md) ==
    <<md.pointCount, md.cellCount, md.cellTypeCount, md.pointDataNames, md.cellDataNames,
      md.meshType>>
\* C23: whenever a parser or calculateMetadata returns, every metadata field
\* equals the value recomputed from points, cells, pointData and cellData
\* alone, and clear() resets every field to its default.
C23_MetadataPure ==
    /\ ((ppc = "done" /\ ~presult.threw) \/ ppc = "calculated")
            => metadata = calculateMetadata(meshData, DefaultMetadata)
    /\ ppc = "cleared" => (metadata = DefaultMetadata /\ meshData = EmptyMesh)
\* what does hold: after a successful parse or a call of calculateMetadata the
\* fields calculateMetadata assigns agree with the recomputation, and clear()
\* resets everything
C23_DerivedAfterSuccess ==
    /\ ((ppc = "done" /\ presult.ok /\ pentry \notin {"readSU2", "readOpenFOAM"})
          \/ ppc = "calculated")
            => Derived(metadata) = Derived(calculateMetadata(meshData, DefaultMetadata))
    /\ ppc = "cleared" => (metadata = DefaultMetadata /\ meshData = EmptyMesh)

\* ------------------------------------------- a detector called on one path
DetectPaths ==
    { <<"x">>,   \* one character
      <<"a", ".", "b">>,   \* three characters
      <<"d", "a", "t", "a">>,   \* four characters, no extension
      <<".", "s", "t", "l">>,   \* a hidden file: no extension for std::filesystem
      <<".", "v", "t", "k">>,
      <<"m", ".", "v", "t", "k">>,
      <<"m", ".", "V", "T", "U">>,   \* upper case
      <<"m", ".", "c", "g", "n", "s">>,
      <<"m", ".", "m", "s", "h">>,
      <<"m", ".", "s", "t", "l">>,
      <<"m", ".", "o", "b", "j">>,
      <<"m", ".", "p", "l", "y">>,
      <<"m", ".", "o", "f", "f">>,
      <<"m", ".", "s", "u", "2">>,
      <<"m", ".", "t", "x", "t">>,   \* an extension of no format
      <<"d", "/", "c", "a", "s", "e">> }   \* a name without a dot
\* the first bytes of a file, as text
DetectHeads ==
    { <<>>,   \* an empty file
      <<"s", "o", "l", "i", "d", " ", "m">>,
      <<"b", "i", "n", "a", "r", "y", " ", "S", "O", "L", "I", "D">>,   \* SOLID further on
      <<"#", " ", "v", "t", "k", " ", "D", "a", "t", "a", "F", "i", "l", "e">>,
      <<"$", "M", "e", "s", "h", "F", "o", "r", "m", "a", "t", "\n", "4", ".", "1">>,
      <<"$", "M", "e", "s", "h", "F", "o", "r", "m", "a", "t", "\n", "2", ".", "2">>,
      <<"p", "l", "y", "\n", "f", "o", "r", "m", "a", "t", " ", "a", "s", "c", "i", "i">>,
      <<"p", "l", "y", "\n", "f", "o", "r", "m", "a", "t", " ", "b", "i", "n", "a", "r", "y">>,
      <<"O", "F", "F", "\n", "0", " ", "0", " ", "0">>,
      <<"v", " ", "1", " ", "2", " ", "3", "\n", "f", " ", "1", " ", "1", " ", "1">>,
      <<"h", "e", "l", "l", "o">> }
\* what a path may name: nothing, a file (that can be opened or not) or a
\* directory (an OpenFOAM case when it has a polyMesh in it)
DetectFiles ==
    {[NoFile EXCEPT !.kind = "DETECT", !.path = p, !.exists = FALSE, !.readable = FALSE] :
        p \in DetectPaths}
    \cup {[NoFile EXCEPT !.kind = "DETECT", !.path = p, !.readable = r, !.head = h] :
            p \in DetectPaths, r \in BOOLEAN, h \in DetectHeads}
    \cup {[NoFile EXCEPT !.kind = "DETECT", !.path = p, !.isDir = TRUE, !.hasPolyMesh = m] :
            p \in DetectPaths, m \in BOOLEAN}

InitDetect ==
    /\ pfile \in DetectFiles
    /\ meshData = EmptyMesh
    /\ metadata = DefaultMetadata
    /\ presult = NoResult
    /\ ppc = "ready"
    /\ FreshParse
    /\ IdleConvert /\ InitDisk /\ IdleBatch

Detect(entry, d) ==
    /\ detected' = d
    /\ pentry' = entry
    /\ ppc' = "done"
    /\ UNCHANGED <<pfile, meshData, metadata, presult, meshFirst, psteps, call, diskVars,
                   batchVars>>

DetectFormatFromHeader ==
    ppc = "ready" /\ Detect("detectFormatFromHeader", detectFormatFromHeader(pfile.path, pfile))
DetectFormat == ppc = "ready" /\ Detect("detectFormat", detectFormat(pfile.path, pfile))
DetectFormatFromExtension ==
    ppc = "ready" /\ Detect("detectFormatFromExtension", detectFormatFromExtension(pfile.path))

NextDetect == DetectFormatFromHeader \/ DetectFormat \/ DetectFormatFromExtension

SpecDetect == InitDetect /\ [][NextDetect]_vars

\* C19: format detection never throws: for every path both detectors return
\* a format tag, and the file system is as it was.
C19_DetectionNeverThrows ==
    ppc = "done" => (~detected.threw /\ dirs = InitialDirs /\ files = {})

\* the extensions that name one format each, and the format
FastPath ==
    { <<<<".", "v", "t", "k">>, "VTK_LEGACY">>, <<<<".", "v", "t", "u">>, "VTK_XML">>,
      <<<<".", "v", "t", "p">>, "VTK_XML">>, <<<<".", "v", "t", "i">>, "VTK_XML">>,
      <<<<".", "v", "t", "s">>, "VTK_XML">>, <<<<".", "c", "g", "n", "s">>, "CGNS">>,
      <<<<".", "o", "b", "j">>, "OBJ">>, <<<<".", "o", "f", "f">>, "OFF">>,
      <<<<".", "s", "u", "2">>, "SU2">> }
\* the path ends in a file name, a dot and the letters of e, in any case
HasExtension(path, e) ==
    /\ Len(path) > Len(e)
    /\ ToLower(Suffix(path, Len(e))) = e
    /\ path[Len(path) - Len(e)] # "/"
FastPathHolds ==
    \A x \in FastPath : HasExtension(pfile.path, x[1]) => detected = Detected(x[2])

MaxCoords == 4
MaxAttrLen == 2
\* std::numeric_limits<float>::max(); lowest() is its negation
FloatMax == 99
\* what a read past the end of the points array can return
Garbage == {-FloatMax, 0, FloatMax}

Attr(name, data) == [name |-> name, data |-> data]
\* a MeshData with its attribute maps, each a sequence of entries in key order
FullMesh(points, cells, pointData, cellData) ==
    [points |-> points, cells |-> cells, pointData |-> pointData, cellData |-> cellData]

isValidPointIndex(pointIndex, pointCount) == pointIndex < pointCount

\* the pairs <<cell, position>> of a cell's point index that fails the check
InvalidIndices(cells, pointCount) ==
    {p \in (1..Len(cells)) \X (1..3) :
        /\ p[2] <= Len(cells[p[1]].pointIndices)
        /\ ~isValidPointIndex(cells[p[1]].pointIndices[p[2]], pointCount)}
FirstInvalid(cells, pointCount) ==
    CHOOSE p \in InvalidIndices(cells, pointCount) :
        \A q \in InvalidIndices(cells, pointCount) :
            p[1] < q[1] \/ (p[1] = q[1] /\ p[2] <= q[2])

\* One attribute loop: the ways it can end.  data.size() % count with count
\* zero is undefined: the division traps, or it yields some remainder.
RECURSIVE AttrCheck(_, _, _)
AttrCheck(attrs, i, count) ==
    IF i > Len(attrs) THEN {[kind |-> "pass", name |-> ""]}
    ELSE IF attrs[i].data = <<>> THEN AttrCheck(attrs, i + 1, count)
    ELSE IF count = 0
         THEN {[kind |-> "SIGFPE", name |-> attrs[i].name],
               [kind |-> "mismatch", name |-> attrs[i].name]}
              \cup AttrCheck(attrs, i + 1, count)
    ELSE IF Len(attrs[i].data) % count # 0
         THEN {[kind |-> "mismatch", name |-> attrs[i].name]}
    ELSE AttrCheck(attrs, i + 1, count)

\* TRUE when an attribute loop over attrs evaluates a remainder by zero
DividedByZero(attrs, count) ==
    count = 0 /\ \E i \in 1..Len(attrs) : attrs[i].data # <<>>

Verdict(ok, errorMsg, bounds, fault, m) ==
    [ret |-> ok, errorMsg |-> errorMsg, bounds |-> bounds, fault |-> fault, mesh |-> m]
NoVerdict == Verdict(FALSE, <<>>, <<>>, "none", FullMesh(<<>>, <<>>, <<>>, <<>>))

\* the set of outcomes of validateMesh(meshData, errorMsg); errorMsg comes in empty
validateMesh(mesh) ==
    IF isEmpty(mesh)
    THEN {Verdict(FALSE, <<"Mesh data is empty">>, <<>>, "none", mesh)}
    ELSE IF Len(mesh.points) % 3 # 0
    THEN {Verdict(FALSE, <<"Point data length is not a multiple of 3">>, <<>>, "none", mesh)}
    ELSE LET pointCount == Len(mesh.points) \div 3
             cellCount == Len(mesh.cells)
         IN  IF InvalidIndices(mesh.cells, pointCount) # {}
             THEN LET p == FirstInvalid(mesh.cells, pointCount)
                  IN  {Verdict(FALSE,
                               <<"Cell ", ToString(p[1] - 1),
                                 " contains invalid point index: ",
                                 ToString(mesh.cells[p[1]].pointIndices[p[2]])>>,
                               <<>>, "none", mesh)}
             ELSE UNION {
                IF pd.kind = "SIGFPE"
                THEN {Verdict(FALSE, <<>>, <<>>, "SIGFPE", mesh)}
                ELSE IF pd.kind = "mismatch"
                THEN {Verdict(FALSE,
                              <<"Point attribute '", pd.name,
                                "' data length does not match point count">>,
                              <<>>, IF pointCount = 0 THEN "division by zero" ELSE "none",
                              mesh)}
                ELSE {IF cd.kind = "SIGFPE"
                      THEN Verdict(FALSE, <<>>, <<>>, "SIGFPE", mesh)
                      ELSE IF cd.kind = "mismatch"
                      THEN Verdict(FALSE,
                                   <<"Cell attribute '", cd.name,
                                     "' data length does not match cell count">>,
                                   <<>>,
                                   IF cellCount = 0 \/ DividedByZero(mesh.pointData, pointCount)
                                   THEN "division by zero" ELSE "none",
                                   mesh)
                      ELSE Verdict(TRUE, <<>>, <<>>,
                                   IF DividedByZero(mesh.pointData, pointCount)
                                      \/ DividedByZero(mesh.cellData, cellCount)
                                   THEN "division by zero" ELSE "none",
                                   mesh)
                      : cd \in AttrCheck(mesh.cellData, 1, cellCount)}
                : pd \in AttrCheck(mesh.pointData, 1, pointCount)}

\* ------------------------------------------- MeshProcessor::computeBounds
Min2(a, b) == IF a < b THEN a ELSE b
Max2(a, b) == IF a > b THEN a ELSE b
\* points[i] of a read that may run past the end: the element, or garbage
PointAt(points, i) == IF i <= Len(points) THEN {points[i]} ELSE Garbage

\* the loop of computeBounds from 1-based position i on, b the box so far
RECURSIVE BoundsLoop(_, _, _)
BoundsLoop(points, i, b) ==
    IF i > Len(points) THEN {b}
    ELSE UNION {BoundsLoop(points, i + 3,
                           <<Min2(b[1], points[i]), Max2(b[2], points[i]),
                             Min2(b[3], y), Max2(b[4], y),
                             Min2(b[5], z), Max2(b[6], z)>>)
                : y \in PointAt(points, i + 1), z \in PointAt(points, i + 2)}

\* the set of outcomes of computeBounds(meshData, bounds); bounds comes in empty
computeBounds(mesh) ==
    IF isEmpty(mesh) THEN {Verdict(FALSE, <<>>, <<>>, "none", mesh)}
    ELSE LET fault == IF Len(mesh.points) % 3 # 0
                      THEN "out of bounds read" ELSE "none"
         IN  {Verdict(TRUE, <<>>, b, fault, mesh)
                : b \in BoundsLoop(mesh.points, 1,
                                   <<FloatMax, -FloatMax, FloatMax, -FloatMax,
                                     FloatMax, -FloatMax>>)}
             \cup (IF fault = "none" THEN {}
                   ELSE {Verdict(FALSE, <<>>, <<>>, "SIGSEGV", mesh)})

\* C30: the two format detectors agree: for every path and file content,
\* MeshHelper::detectFormat and MeshReader::detectFormatFromHeader return the
\* same format tag.
C30_DetectorsAgree ==
    /\ (ppc = "done" /\ pentry = "detectFormat")
          => detected = detectFormatFromHeader(pfile.path, pfile)
    /\ (ppc = "done" /\ pentry = "detectFormatFromHeader")
          => detected = detectFormat(pfile.path, pfile)

\* ------------------------------------------- the validator called on one mesh
Coords(n) == [i \in 1..n |-> i]
ValidateCells ==
    {<<>>, <<Cell("VERTEX", <<>>)>>, <<Cell("TRIANGLE", <<0, 1, 2>>)>>,
     <<Cell("TRIANGLE", <<0, 1, 3>>)>>}
AttrMaps == {<<>>} \cup {<<Attr("p", Coords(n))>> : n \in 0..MaxAttrLen}
ValidateMeshes ==
    {FullMesh(Coords(n), c, pd, cd) :
        n \in 0..MaxCoords, c \in ValidateCells, pd \in AttrMaps, cd \in AttrMaps}

InitValidate ==
    /\ pfile = NoFile
    /\ meshData \in ValidateMeshes
    /\ metadata = DefaultMetadata
    /\ presult = NoVerdict
    /\ ppc = "ready"
    /\ FreshParse
    /\ IdleConvert /\ InitDisk /\ IdleBatch

Validated(entry, v) ==
    /\ meshData' = v.mesh
    /\ presult' = v
    /\ pentry' = entry
    /\ ppc' = "done"
    /\ UNCHANGED <<pfile, metadata, meshFirst, psteps, detected, call, diskVars, batchVars>>

ValidateMesh == ppc = "ready" /\ \E v \in validateMesh(meshData) : Validated("validateMesh", v)
ComputeBounds == ppc = "ready" /\ \E v \in computeBounds(meshData) : Validated("computeBounds", v)

NextValidate == ValidateMesh \/ ComputeBounds
SpecValidate == InitValidate /\ [][NextValidate]_vars

\* C22: validateMesh and computeBounds return for every MeshData value without
\* a trap, without dividing by zero and without reading outside the points
\* array, and leave the MeshData as it was.
C22_ValidatorTotal ==
    [][(ppc = "ready" /\ ppc' = "done") =>
            (presult'.fault = "none" /\ meshData' = meshData)]_vars
\* what the validator does guarantee: the MeshData is never changed, and a
\* mesh whose point and cell counts are positive and whose points come in
\* triples is handled without a fault
C22_WellShapedTotal ==
    [][(ppc = "ready" /\ ppc' = "done") =>
            /\ meshData' = meshData
            /\ (Len(meshData.points) % 3 = 0 /\ meshData.points # <<>> /\ meshData.cells # <<>>)
                    => presult'.fault = "none"]_vars

\* ------------------------------------------- one call of MeshWriter::write
DstName == <<"c", ".", "s", "t", "l">>
DstPaths == {PathAppend(d, DstName) : d \in {D_out, D_new, D_deep, D_denied, <<>>}}
OneTriangle ==
    [points |-> <<0, 0, 0, 1, 0, 0, 0, 1, 0>>, cells |-> <<Cell("TRIANGLE", <<0, 1, 2>>)>>]
OneQuad ==
    [points |-> <<0, 0, 0, 1, 0, 0, 1, 1, 0, 0, 1, 0>>,
     cells |-> <<Cell("QUAD", <<0, 1, 2, 3>>)>>]
PointsOnly == [points |-> <<1, 2, 3>>, cells |-> <<>>]
CellsOnly == [points |-> <<>>, cells |-> <<Cell("TRIANGLE", <<0, 1, 2>>)>>]
WriteMeshes == {EmptyMesh, PointsOnly, CellsOnly, OneTriangle, OneQuad, DirtyMesh}
WriteFormats ==
    {"VTK_LEGACY", "VTK_XML", "CGNS", "GMSH_V2", "GMSH_V4", "STL_ASCII", "STL_BINARY", "OBJ",
     "PLY_ASCII", "PLY_BINARY", "OFF", "SU2", "OPENFOAM", "UNKNOWN"}

\* the caller holds a MeshData and calls write with a path and a format
InitWrite ==
    /\ call \in {[Call(<<>>, dst, "UNKNOWN", df) EXCEPT !.pc = "writer", !.meshData = m] :
                   dst \in DstPaths, df \in WriteFormats, m \in WriteMeshes}
    /\ InitDisk
    /\ IdleParse /\ IdleBatch

WriteMesh ==
    /\ call.pc = "writer"
    /\ \E w \in {write(call.meshData, call.dstFilePath, call.dstFormat, dirs, denied, files)} :
          /\ call' = [call EXCEPT !.pc = "written", !.ret = w.ok, !.errorCode = w.code,
                                  !.errorMsg = w.msg]
          /\ dirs' = w.dirs
          /\ files' = w.files
    /\ UNCHANGED <<parseVars, denied, batchVars>>

NextWrite == WriteMesh

SpecWrite == InitWrite /\ [][NextWrite]_vars

\* the directory of the destination is missing and cannot be made
DirCannotBeMade(path) ==
    /\ ParentPath(path) # <<>> /\ ParentPath(path) \notin InitialDirs
    /\ Ancestors(ParentPath(path)) \cap denied # {}
NoPointsOrNoCells(m) == m.points = <<>> \/ m.cells = <<>>

\* C21: write refuses a MeshData with no points or no cells with MESH_EMPTY
\* and leaves the file system alone; for another MeshData it makes the missing
\* parent directories, and returns WRITE_FAILED with nothing opened when they
\* cannot be made.
C21_WriteGuards ==
    call.pc = "written" =>
       /\ NoPointsOrNoCells(call.meshData)
             => (~call.ret /\ call.errorCode = "MESH_EMPTY" /\ dirs = InitialDirs /\ files = {})
       /\ (~NoPointsOrNoCells(call.meshData) /\ DirCannotBeMade(call.dstFilePath))
             => (~call.ret /\ call.errorCode = "WRITE_FAILED" /\ dirs = InitialDirs
                   /\ files = {})
       /\ (~NoPointsOrNoCells(call.meshData) /\ ~DirCannotBeMade(call.dstFilePath))
             => (ParentPath(call.dstFilePath) = <<>> \/ ParentPath(call.dstFilePath) \in dirs)

SurfaceTargets == {"STL_ASCII", "STL_BINARY", "OBJ", "PLY_ASCII", "PLY_BINARY", "OFF"}
\* C24: round trip: for a non-empty valid MeshData and a surface target format
\* (STL, OBJ, PLY, OFF), MeshWriter::write succeeds and leaves a file at the
\* output path for the matching parser to read back (same point count, same
\* cell count, same per-kind histogram).
C24_RoundTrip ==
    (/\ call.pc = "written"
     /\ call.meshData \in {OneTriangle, OneQuad}
     /\ call.dstFormat \in SurfaceTargets
     /\ ~DirCannotBeMade(call.dstFilePath))
        => (call.ret /\ call.errorCode = "SUCCESS" /\ call.dstFilePath \in files)

\* --------------------------------------------------- one call of convert
ConvertSources == {f.path : f \in Disk} \cup {P_gone}
DstFormats == {"STL_ASCII", "OBJ", "VTK_LEGACY", "CGNS", "UNKNOWN"}

InitConvert ==
    /\ call \in {Call(src, dst, sf, df) :
                   src \in ConvertSources, dst \in DstPaths, sf \in {"UNKNOWN", "OBJ"},
                   df \in DstFormats}
    /\ InitDisk
    /\ IdleParse /\ IdleBatch

CheckSource ==
    /\ call.pc = "srcCheck"
    /\ call' = ConvertSrcCheck(call)
    /\ UNCHANGED <<parseVars, diskVars, batchVars>>

EnsureDir ==
    /\ call.pc = "ensureDir"
    /\ LET r == ConvertEnsureDir(call, dirs, denied)
       IN  call' = r.call /\ dirs' = r.dirs
    /\ UNCHANGED <<parseVars, denied, files, batchVars>>

ReadSource ==
    /\ call.pc = "read"
    /\ call' = ConvertRead(call)
    /\ UNCHANGED <<parseVars, diskVars, batchVars>>

WriteTarget ==
    /\ call.pc = "write"
    /\ LET r == ConvertWrite(call, dirs, denied, files)
       IN  call' = r.call /\ dirs' = r.dirs /\ files' = r.files
    /\ UNCHANGED <<parseVars, denied, batchVars>>

NextConvert == CheckSource \/ EnsureDir \/ ReadSource \/ WriteTarget

SpecConvert == InitConvert /\ [][NextConvert]_vars

\* ------------------------------------------------ properties of convert
StageOrder == <<"srcCheck", "ensureDir", "read", "write">>
LastRan == call.trace[Len(call.trace)]
ReturnedFalse == call.pc = "returned" /\ ~call.ret
\* what the reader and the writer report for this call, computed afresh
ReadOfCall == readAuto(call.srcFilePath, FileAt(call.srcFilePath), EmptyMesh)
WriteOfCall == write(call.meshData, call.dstFilePath, call.dstFormat, dirs, denied, files)
SourceConverts(path) ==
    LET r == readAuto(path, FileAt(path), EmptyMesh)
    IN  FileAt(path).exists /\ ~r.threw /\ r.ok /\ ~isEmpty(r.mesh)

\* C7: the stages of one convert call run in the order source check, directory,
\* read, write, each at most once and only after every earlier one succeeded,
\* and a stage that fails is the last one and makes convert return false with
\* that stage's error code.
C7_StagesInOrder ==
    /\ Len(call.trace) <= Len(StageOrder)
    /\ \A i \in DOMAIN call.trace :
          /\ call.trace[i].stage = StageOrder[i]
          /\ ~call.trace[i].ok =>
                /\ i = Len(call.trace)
                /\ call.pc = "returned"
                /\ ~call.ret
                /\ call.errorCode = call.trace[i].code

\* C8 (as stated): whenever convert returns false the message is the name of
\* the failing stage followed by that stage's own message, and the code is
\* that stage's code.
StagePrefixes == {"Read failed: ", "Write failed: "}
C8_StagePrefixed ==
    ReturnedFalse =>
        /\ call.errorMsg # <<>>
        /\ Head(call.errorMsg) \in StagePrefixes
        /\ Tail(call.errorMsg) = LastRan.msg
        /\ call.errorCode = LastRan.code

\* C8 (amended): when convert returns false after the read or the write failed,
\* the message is "Read failed: " or "Write failed: " followed by the reader's
\* or writer's message verbatim and the code is the reader's or writer's code;
\* a missing source gives FILE_NOT_EXIST with "Source file does not exist: "
\* and the source path; a directory that cannot be made gives WRITE_FAILED
\* with "Cannot create target directory: " and the directory.
C8_FailureMessages ==
    ReturnedFalse =>
        CASE LastRan.stage = "srcCheck" ->
               /\ call.errorCode = "FILE_NOT_EXIST"
               /\ call.errorMsg = <<"Source file does not exist: ">> \o call.srcFilePath
          [] LastRan.stage = "ensureDir" ->
               /\ call.errorCode = "WRITE_FAILED"
               /\ call.errorMsg = <<"Cannot create target directory: ">>
                                     \o ParentPath(call.dstFilePath)
          [] LastRan.stage = "read" ->
               /\ call.errorCode = ReadOfCall.code
               /\ call.errorMsg = <<"Read failed: ">> \o ReadOfCall.msg
          [] LastRan.stage = "write" ->
               /\ call.errorCode = WriteOfCall.code
               /\ call.errorMsg = <<"Write failed: ">> \o WriteOfCall.msg

\* convert has returned false on a source whose reader reported a failure
C8_Witness ==
    /\ ReturnedFalse
    /\ LastRan.stage = "read"
    /\ call.errorMsg = <<"Read failed: ", "SU2 format read not implemented">>

\* C9: convert of an existing, readable, non-empty source to a destination
\* whose parent directory does not exist returns true, the directory exists
\* on return and the destination file has been written.
C9_ConvertCreatesDir ==
    (/\ call.pc = "returned"
     /\ SourceConverts(call.srcFilePath)
     /\ ParentPath(call.dstFilePath) # <<>>
     /\ ParentPath(call.dstFilePath) \notin InitialDirs
     /\ Ancestors(ParentPath(call.dstFilePath)) \cap denied = {})
    => /\ call.ret
       /\ ParentPath(call.dstFilePath) \in dirs
       /\ call.dstFilePath \in files

\* the read stage of the call went as the reader result r says
ReadWentAs(r) ==
    \A i \in DOMAIN call.trace :
       call.trace[i].stage = "read" =>
          /\ call.trace[i].ok = r.ok
          /\ (r.threw <=> call.pc = "threw")
          /\ ((~r.ok /\ ~r.threw) => (call.trace[i].code = r.code /\ call.trace[i].msg = r.msg))
          /\ ((r.ok /\ call.pc = "write") => call.meshData = r.mesh)
\* C28: convert detects the source format only if no hint is given: with the
\* hint OBJ the file is read by readOBJ whatever detection would say, and with
\* UNKNOWN it is read by the parser of the detected format.
C28_HintSelectsParser ==
    /\ call.srcFormat = "OBJ" => ReadWentAs(readOBJ(FileAt(call.srcFilePath)))
    /\ call.srcFormat = "UNKNOWN"
          => ReadWentAs(readAuto(call.srcFilePath, FileAt(call.srcFilePath), EmptyMesh))
\* what does hold: the read is done by readAuto, hint or no hint
C28_AlwaysDetects ==
    ReadWentAs(readAuto(call.srcFilePath, FileAt(call.srcFilePath), EmptyMesh))

\* ------------------------------------------------- one call of batchConvert
BatchSources == {P_cube, P_cube2, P_gone, P_zero, P_short}
DistinctSeqs(S, n) == {q \in SeqsUpTo(S, n) : \A i, j \in DOMAIN q : i # j => q[i] # q[j]}
\* an entry the caller's map may hold from an earlier call
StaleEntry == Entry(P_text, "READ_FAILED", <<"Read failed: ", "Format not supported">>)

Init ==
    /\ srcFilePaths \in DistinctSeqs(BatchSources, MaxBatch)
    /\ dstDir \in {D_out, D_new, D_denied}
    /\ dstFormat \in {"STL_ASCII", "CGNS"}
    /\ errorMap \in {{}, {StaleEntry}}
    /\ entryMap = errorMap
    /\ successCount = 0
    /\ errorMapMutex = 0
    /\ threads = <<>>
    /\ maxThreads \in 0..MaxHW
    /\ currentThread = 0
    /\ mpc = "ensure"
    /\ idx = 1
    /\ joinIdx = 1
    /\ workers = [i \in DOMAIN srcFilePaths |-> Worker(srcFilePaths[i])]
    /\ waveNo = 0
    /\ ret = 0
    /\ InitDisk /\ IdleParse /\ IdleConvert

\* lines 129-137
EnsureDst ==
    /\ mpc = "ensure"
    /\ LET e == ensureDstDirExists(dstDir, dirs, denied)
       IN  IF ~e.ok
           THEN /\ errorMap' = EnsureFailedMap(srcFilePaths, dstDir)
                /\ ret' = 0
                /\ mpc' = "done"
                /\ UNCHANGED dirs
           ELSE /\ dirs' = e.dirs
                /\ mpc' = "loop"
                /\ UNCHANGED <<errorMap, ret>>
    /\ UNCHANGED <<parseVars, call, denied, files, srcFilePaths, dstDir, dstFormat, entryMap,
                   successCount, errorMapMutex, threads, maxThreads, currentThread, idx,
                   joinIdx, workers, waveNo>>

\* a loop that joins only once the wave has more threads than maxThreads
Launch_LateJoin ==
    /\ mpc = "loop"
    /\ idx <= Len(srcFilePaths)
    /\ workers' = [workers EXCEPT ![idx].pc = "launched", ![idx].wave = waveNo]
    /\ threads' = Append(threads, idx)
    /\ currentThread' = currentThread + 1
    /\ idx' = idx + 1
    /\ IF currentThread + 1 > maxThreads
       THEN mpc' = "joinWave" /\ joinIdx' = 1
       ELSE UNCHANGED <<mpc, joinIdx>>
    /\ UNCHANGED <<parseVars, call, diskVars, srcFilePaths, dstDir, dstFormat, errorMap,
                   entryMap, successCount, errorMapMutex, maxThreads, waveNo, ret>>

\* lines 148-165: threads.emplace_back, currentThread++ and the test of the wave
Launch ==
    /\ mpc = "loop"
    /\ idx <= Len(srcFilePaths)
    /\ workers' = [workers EXCEPT ![idx].pc = "launched", ![idx].wave = waveNo]
    /\ threads' = Append(threads, idx)
    /\ currentThread' = currentThread + 1
    /\ idx' = idx + 1
    /\ IF currentThread + 1 >= maxThreads
       THEN mpc' = "joinWave" /\ joinIdx' = 1
       ELSE UNCHANGED <<mpc, joinIdx>>
    /\ UNCHANGED <<parseVars, call, diskVars, srcFilePaths, dstDir, dstFormat, errorMap,
                   entryMap, successCount, errorMapMutex, maxThreads, waveNo, ret>>

\* lines 167-169: thread.join() returns when the thread has finished
JoinWave ==
    /\ mpc = "joinWave"
    /\ joinIdx <= Len(threads)
    /\ workers[threads[joinIdx]].pc = "finished"
    /\ workers' = [workers EXCEPT ![threads[joinIdx]].pc = "joined"]
    /\ joinIdx' = joinIdx + 1
    /\ UNCHANGED <<parseVars, call, diskVars, srcFilePaths, dstDir, dstFormat, errorMap,
                   entryMap, successCount, errorMapMutex, threads, maxThreads,
                   currentThread, mpc, idx, waveNo, ret>>

\* lines 170-171
ClearWave ==
    /\ mpc = "joinWave"
    /\ joinIdx > Len(threads)
    /\ threads' = <<>>
    /\ currentThread' = 0
    /\ waveNo' = waveNo + 1
    /\ mpc' = "loop"
    /\ UNCHANGED <<parseVars, call, diskVars, srcFilePaths, dstDir, dstFormat, errorMap,
                   entryMap, successCount, errorMapMutex, maxThreads, idx, joinIdx,
                   workers, ret>>

\* the for loop over srcFilePaths ends
LoopEnd ==
    /\ mpc = "loop"
    /\ idx > Len(srcFilePaths)
    /\ mpc' = "joinRest"
    /\ joinIdx' = 1
    /\ UNCHANGED <<parseVars, call, diskVars, srcFilePaths, dstDir, dstFormat, errorMap,
                   entryMap, successCount, errorMapMutex, threads, maxThreads,
                   currentThread, idx, workers, waveNo, ret>>

\* lines 175-177: thread.join() returns when the thread has finished
JoinRest ==
    /\ mpc = "joinRest"
    /\ joinIdx <= Len(threads)
    /\ workers[threads[joinIdx]].pc = "finished"
    /\ workers' = [workers EXCEPT ![threads[joinIdx]].pc = "joined"]
    /\ joinIdx' = joinIdx + 1
    /\ UNCHANGED <<parseVars, call, diskVars, srcFilePaths, dstDir, dstFormat, errorMap,
                   entryMap, successCount, errorMapMutex, threads, maxThreads,
                   currentThread, mpc, idx, waveNo, ret>>

\* line 179
Return ==
    /\ mpc = "joinRest"
    /\ joinIdx > Len(threads)
    /\ ret' = successCount
    /\ mpc' = "done"
    /\ UNCHANGED <<parseVars, call, diskVars, srcFilePaths, dstDir, dstFormat, errorMap,
                   entryMap, successCount, errorMapMutex, threads, maxThreads,
                   currentThread, idx, joinIdx, workers, waveNo>>

\* lines 149-153: the worker converts its file; an exception that leaves the
\* thread function ends the process (std::terminate)
RunConvert ==
  \E w \in DOMAIN workers :
    /\ mpc # "terminated"
    /\ workers[w].pc = "launched"
    /\ \E r \in {convert(Call(workers[w].srcFilePath,
                                generateDstFilePath(workers[w].srcFilePath, dstDir, dstFormat),
                                "UNKNOWN", dstFormat),
                           dirs, denied, files)} :
           IF r.call.pc = "threw"
           THEN mpc' = "terminated" /\ UNCHANGED <<workers, dirs, files>>
           ELSE /\ workers' = [workers EXCEPT ![w].pc = "converted",
                                              ![w].success = r.call.ret,
                                              ![w].errorCode = r.call.errorCode,
                                              ![w].errorMsg = r.call.errorMsg]
                /\ dirs' = r.dirs
                /\ files' = r.files
                /\ UNCHANGED mpc
    /\ UNCHANGED <<parseVars, call, denied, srcFilePaths, dstDir, dstFormat, errorMap,
                   entryMap, successCount, errorMapMutex, threads, maxThreads,
                   currentThread, idx, joinIdx, waveNo, ret>>

\* a worker that takes no notice of the mutex
Acquire_NoMutex ==
  \E w \in DOMAIN workers :
    /\ mpc # "terminated"
    /\ workers[w].pc = "converted"
    /\ errorMapMutex' = w
    /\ workers' = [workers EXCEPT ![w].pc = "critical", ![w].seenMap = errorMap,
                                  ![w].seenCount = successCount]
    /\ UNCHANGED <<parseVars, call, diskVars, srcFilePaths, dstDir, dstFormat, errorMap,
                   entryMap, successCount, threads, maxThreads, currentThread, mpc, idx,
                   joinIdx, waveNo, ret>>

\* lines 156 and 159: std::lock_guard takes errorMapMutex when it is free; the
\* worker then reads the map or the counter it is about to change
Acquire ==
  \E w \in DOMAIN workers :
    /\ mpc # "terminated"
    /\ workers[w].pc = "converted"
    /\ errorMapMutex = 0
    /\ errorMapMutex' = w
    /\ workers' = [workers EXCEPT ![w].pc = "critical", ![w].seenMap = errorMap,
                                  ![w].seenCount = successCount]
    /\ UNCHANGED <<parseVars, call, diskVars, srcFilePaths, dstDir, dstFormat, errorMap,
                   entryMap, successCount, threads, maxThreads, currentThread, mpc, idx,
                   joinIdx, waveNo, ret>>

\* a worker that writes a map of its own entry alone
Release_OwnEntryOnly ==
  \E w \in DOMAIN workers :
    /\ mpc # "terminated"
    /\ workers[w].pc = "critical"
    /\ IF workers[w].success
       THEN successCount' = workers[w].seenCount + 1 /\ UNCHANGED errorMap
       ELSE /\ errorMap' = Assign({}, workers[w].srcFilePath,
                                  workers[w].errorCode, workers[w].errorMsg)
            /\ UNCHANGED successCount
    /\ errorMapMutex' = 0
    /\ workers' = [workers EXCEPT ![w].pc = "finished"]
    /\ UNCHANGED <<parseVars, call, diskVars, srcFilePaths, dstDir, dstFormat, entryMap,
                   threads, maxThreads, currentThread, mpc, idx, joinIdx, waveNo, ret>>

\* lines 157 and 160: the counter or the map is written and the lock_guard
\* leaves scope
Release ==
  \E w \in DOMAIN workers :
    /\ mpc # "terminated"
    /\ workers[w].pc = "critical"
    /\ IF workers[w].success
       THEN successCount' = workers[w].seenCount + 1 /\ UNCHANGED errorMap
       ELSE /\ errorMap' = Assign(workers[w].seenMap, workers[w].srcFilePath,
                                  workers[w].errorCode, workers[w].errorMsg)
            /\ UNCHANGED successCount
    /\ errorMapMutex' = 0
    /\ workers' = [workers EXCEPT ![w].pc = "finished"]
    /\ UNCHANGED <<parseVars, call, diskVars, srcFilePaths, dstDir, dstFormat, entryMap,
                   threads, maxThreads, currentThread, mpc, idx, joinIdx, waveNo, ret>>

Next ==
    \/ EnsureDst \/ Launch \/ JoinWave \/ ClearWave \/ LoopEnd \/ JoinRest \/ Return
    \/ RunConvert \/ Acquire \/ Release

Spec == Init /\ [][Next]_vars

\* ------------------------------------------- properties of batchConvert
Done == mpc = "done"
BatchPaths == Range(srcFilePaths)
Missing == {p \in BatchPaths : ~FileAt(p).exists}
\* the destination directory is missing and cannot be made
CannotEnsure == dstDir \notin InitialDirs /\ Ancestors(dstDir) \cap denied # {}
Live == {w \in DOMAIN workers :
           workers[w].pc \in {"launched", "converted", "critical", "finished"}}
Launched == {w \in DOMAIN workers : workers[w].pc # "notLaunched"}
Ended == {w \in DOMAIN workers : workers[w].pc \in {"finished", "joined"}}
InCritical == {w \in DOMAIN workers : workers[w].pc = "critical"}
\* what convert gives for one source of this batch, computed afresh
ConvertOf(p) ==
    convert(Call(p, generateDstFilePath(p, dstDir, dstFormat), "UNKNOWN", dstFormat),
            dirs, denied, files).call
DirFailedMap(S) ==
    {Entry(p, "WRITE_FAILED", <<"Cannot create target directory: ">> \o dstDir) : p \in S}

\* C1: with a creatable destination directory, some sources missing and every
\* other source a readable non-empty mesh file, batchConvert returns the
\* number of sources that exist and the error map holds exactly one entry per
\* missing source, with code FILE_NOT_EXIST.
C1_MissingOnlyFail ==
    (/\ Done
     /\ ~CannotEnsure
     /\ entryMap = {}
     /\ Missing # {}
     /\ \A p \in BatchPaths \ Missing : SourceConverts(p))
    => /\ ret = Cardinality(BatchPaths \ Missing)
       /\ Keys(errorMap) = Missing
       /\ \A e \in errorMap : e.code = "FILE_NOT_EXIST"

\* C2: whatever the error map held on entry, when batchConvert returns every
\* worker has finished, the keys of the error map are exactly the sources
\* whose conversion failed in this call, the return value is the number that
\* succeeded, and return value + number of entries = number of sources.
C2_CompleteErrorMap ==
    Done =>
        /\ \A w \in Launched : workers[w].pc = "joined"
        /\ Keys(errorMap) = {workers[w].srcFilePath : w \in {v \in DOMAIN workers :
                                                              ~workers[v].success}}
        /\ ret = Cardinality({w \in DOMAIN workers : workers[w].success})
        /\ ret + Cardinality(errorMap) = Len(srcFilePaths)

\* C3: when the destination directory cannot be made, no worker is ever
\* launched and no conversion runs, and batchConvert returns 0 with every
\* input recorded under WRITE_FAILED and the same message.
C3_NoDirNoConversion ==
    CannotEnsure =>
        /\ Launched = {}
        /\ threads = <<>>
        /\ files = {}
        /\ dirs = InitialDirs
        /\ mpc \in {"ensure", "done"}
        /\ Done => ret = 0 /\ errorMap = DirFailedMap(BatchPaths)

C3_Witness ==
    /\ Done
    /\ CannotEnsure
    /\ Len(srcFilePaths) >= 2
    /\ entryMap # {}
    /\ Cardinality(errorMap) = Len(srcFilePaths)

\* C4: the error map and the success counter are written only by the worker
\* that holds errorMapMutex, at most one worker is inside an insertion or an
\* increment, no insertion or increment is lost, and the mutex is held for
\* nothing else (not while a file is converted).
C4_Inv ==
    /\ Cardinality(InCritical) <= 1
    /\ errorMapMutex \in {0} \cup DOMAIN workers
    /\ \A w \in DOMAIN workers : (errorMapMutex = w) <=> (workers[w].pc = "critical")
    /\ \A w \in Ended :
          ~workers[w].success =>
             Entry(workers[w].srcFilePath, workers[w].errorCode, workers[w].errorMsg)
                \in errorMap
    /\ successCount = Cardinality({w \in Ended : workers[w].success})
C4_Step ==
    (errorMap' # errorMap \/ successCount' # successCount) =>
        \/ mpc = "ensure"
        \/ /\ errorMapMutex \in DOMAIN workers
           /\ workers[errorMapMutex].pc = "critical"
           /\ workers'[errorMapMutex].pc = "finished"
           /\ errorMapMutex' = 0
C4_MutexDiscipline == []C4_Inv /\ [][C4_Step]_vars

\* one worker is inside its insertion while another waits for the mutex
C4_Witness ==
    \E w1, w2 \in DOMAIN workers :
        /\ workers[w1].pc = "critical"
        /\ workers[w2].pc = "converted"
        /\ errorMapMutex = w1

WaveRule ==
    \A w1, w2 \in Launched :
        workers[w1].wave < workers[w2].wave => workers[w1].pc = "joined"

\* C5 (as stated): the threads launched and not joined are at most
\* hardware_concurrency(), for every value of it including 0, and no worker of
\* the next wave is launched before every worker of the current wave is joined.
C5_PoolBound ==
    /\ Cardinality(Live) <= maxThreads
    /\ WaveRule

\* C5 (amended): the threads launched and not joined are at most
\* max(1, hardware_concurrency()), and no worker of the next wave is launched
\* before every worker of the current wave is joined.
C5_Waves ==
    /\ Cardinality(Live) <= (IF maxThreads = 0 THEN 1 ELSE maxThreads)
    /\ WaveRule

\* hardware_concurrency() is 0 and a worker of the second wave is running
C5_Witness ==
    /\ maxThreads = 0
    /\ waveNo >= 1
    /\ Cardinality(Live) = 1

\* C6: with an empty error map on entry, what batchConvert returns and the
\* error map it leaves are determined by the set of source paths (with the
\* directory and the format), whatever the order of the list and the
\* interleaving of the workers.
C6_OrderIndependent ==
    (Done /\ entryMap = {}) =>
        IF CannotEnsure
        THEN ret = 0 /\ errorMap = DirFailedMap(BatchPaths)
        ELSE /\ ret = Cardinality({p \in BatchPaths : ConvertOf(p).ret})
             /\ errorMap = {Entry(p, ConvertOf(p).errorCode, ConvertOf(p).errorMsg) :
                              p \in {q \in BatchPaths : ~ConvertOf(q).ret}}

\* a batch of two or more failures whose workers ran side by side
C6_Witness ==
    /\ Done
    /\ entryMap = {}
    /\ ~CannotEnsure
    /\ maxThreads >= 2
    /\ Cardinality(errorMap) >= 2
    /\ srcFilePaths[1] = P_gone

\* C25: no failure escapes uncaught: for every input convert returns an error
\* code and message instead of letting an exception propagate, so no worker
\* thread of a batch terminates by an uncaught exception.
C25_NoUncaughtException == mpc # "terminated" /\ call.pc # "threw"

\* two different sources of the batch whose destination paths are the same
Colliding ==
    {pq \in BatchPaths \X BatchPaths :
        /\ pq[1] # pq[2]
        /\ generateDstFilePath(pq[1], dstDir, dstFormat)
             = generateDstFilePath(pq[2], dstDir, dstFormat)}
\* C29: the destination path depends only on the base name of the source, the
\* destination directory and the extension of the target format, so sources
\* with the same base name share a destination path; batchConvert does not
\* detect this, runs their workers side by side, and counts both as successes.
C29_CollidingBothSucceed ==
    /\ \A p, q \in BatchPaths : Stem(p) = Stem(q) => <<p, q>> \in Colliding \/ p = q
    /\ (Done /\ ~CannotEnsure)
          => \A pq \in Colliding :
                (SourceConverts(pq[1]) /\ SourceConverts(pq[2]))
                   => /\ {pq[1], pq[2]} \cap Keys(errorMap) = {}
                      /\ ret >= 2
\* what does hold: sources with the same base name share a destination path,
\* and their workers are launched like any others
C29_SamePathNoCheck ==
    \A p, q \in BatchPaths : (Stem(p) = Stem(q) /\ p # q) => <<p, q>> \in Colliding

====
